---- MODULE Spec2Model ----
(***************************************************************************)
(* A model of the Vulkan back end of the Rive PLS renderer                 *)
(* (src/renderer/vulkan/pls_render_context_vulkan_impl.cpp): the buffer    *)
(* ring and its frame-completion fences, the pool of descriptor-set pools, *)
(* image textures, client render buffers, and the Vulkan calls that one    *)
(* flush() makes, in the order it makes them.                              *)
(***************************************************************************)
EXTENDS Integers, Sequences, FiniteSets, TLC

(***************************************************************************)
(* Program constants.                                                      *)
(***************************************************************************)

\* pls::kBufferRingSize (rive/pls/pls.hpp): the number of slots of every
\* buffer ring.
kBufferRingSize == 3

\* descriptor_pool_limits::kMaxImageTextureUpdates is 256 in the source; the
\* model scales it down so that a draw list of MaxBatches batches can run a
\* DescriptorSetPool out of image-texture descriptor sets.
kMaxImageTextureUpdates == 1

\* DescriptorSetPool::onRefCntReachedZero, kMaxDescriptorSetPoolsInPool, is 64
\* in the source; the model scales it down so that the frames and flushes
\* below can fill m_descriptorSetPoolPool.
kMaxDescriptorSetPoolsInPool == 2

\* PLSTextureVulkanImpl::m_descriptorSetFrameIdx starts at
\* std::numeric_limits<size_t>::max(), a value m_currentFrameIdx never takes.
kNoFrameIdx == -1

(***************************************************************************)
(* Bounds of the model.                                                    *)
(***************************************************************************)

\* prepareToMapBuffers is called at most MaxFrames times.
MaxFrames == 4

\* flush is called at most MaxFlushesPerFrame times between two
\* prepareToMapBuffers calls.
MaxFlushesPerFrame == 2

\* A draw list holds at most MaxBatches batches (not counting the atomic
\* resolve batch that ends an atomics draw list).
MaxBatches == 2

(***************************************************************************)
(* Value sets.                                                             *)
(***************************************************************************)

RingSlots == 0 .. (kBufferRingSize - 1)

\* Image textures made by the client. Texture 0 stands for m_nullImageTexture
\* when it indexes imageTextures, and for nullptr as a batch's imageTexture.
Textures == {1, 2}

\* Client render buffers (makeRenderBuffer): 1 holds vertices and uvs, 2
\* holds indices.
RenderBuffers == {1, 2}

InterlockModes == {"rasterOrdering", "atomics", "depthStencil"}

LoadActions == {"preserveRenderTarget", "clear", "dontCare"}

\* DrawType values that flush() accepts in a batch.
DrawTypes ==
    {"midpointFanPatches", "outerCurvePatches", "interiorTriangulation",
     "imageRect", "imageMesh", "plsAtomicResolve"}

\* A frame-completion fence is named by the frame it completes; 0 is nullptr.
NullFence == 0

\* VK_NULL_HANDLE for a VkDescriptorSet. A descriptor set is named by the pool
\* it was allocated from and the number of times that pool had been reset.
NullDescriptorSet == [pool |-> 0, gen |-> 0]

(***************************************************************************)
(* State.                                                                  *)
(***************************************************************************)
VARIABLES
    call,                     \* the operation that ran last
    desc,                     \* the FlushDescriptor of this frame's last flush() call
    cmds,                     \* the Vulkan calls that flush() made, in order
    descriptorSetsAllocated,  \* history: the pool, its reset count and the layout
                              \* of each descriptor set that the last flush()
                              \* allocated, in order
    descriptorSetPoolsMade,   \* history: what each makeDescriptorSetPool call of
                              \* the last flush() returned, in order
    m_currentFrameIdx,        \* PLSRenderContextVulkanImpl::m_currentFrameIdx
    m_bufferRingIdx,          \* PLSRenderContextVulkanImpl::m_bufferRingIdx
    m_frameCompletionFences,  \* one fence (or NullFence) per ring slot
    waitedFence,              \* the fence the last prepareToMapBuffers waited on
    fenceSignaled,            \* the fences the GPU has signaled
    fenceSlots,               \* history: <<fence, slot>> for every fence a flush attached
    flushesThisFrame,         \* flush() calls since the last prepareToMapBuffers
    m_descriptorSetPoolPool,  \* released DescriptorSetPools, oldest first
    descriptorSetPools,       \* every DescriptorSetPool ever made, by id
    imageTextures,            \* PLSTextureVulkanImpl objects, by id
    descriptorSetAllocs,      \* history: per texture, sets allocated this frame
    renderBuffers,            \* RenderBufferVulkanImpl objects, by id
    meshReads,                \* <<frame, buffer, slot>>: what the image-mesh draws of
                              \* the frames whose fence has not signaled read
    renderTarget,             \* PLSRenderTargetVulkan: which auxiliary images exist
    m_drawPipelineLayouts,    \* interlock modes whose DrawPipelineLayout exists
    m_drawPipelines,          \* the DrawPipelines made so far, by pipeline key
    drawPipeline,             \* the pipeline that the last draw selected, with
                              \* the values that selected it
    m_drawShaders,            \* the DrawShaders made so far, by shader key
    m_renderPasses,           \* DrawPipelineLayout::m_renderPasses: the render
                              \* passes made so far, by <<interlock mode, variant>>
    constructed,              \* history: how many times the constructor of each
                              \* cached object has run
    plsRenderContext,         \* the front end: the PLSDraws of the frame, the
                              \* gradient texture's rows and the references held
    m_resourceCounts,         \* PLSDraw::m_resourceCounts of one draw
    vec,                      \* the VecType that the last toVec() returned
    resourceCounters,         \* the object that the last ResourceCounters(vec)
                              \* constructed
    subdivision,              \* the last FindSubdivisionCount call: the constants
                              \* of its build, its estimate and its result
    m_resourcePurgatory,      \* released rendering resources that await
                              \* deletion, oldest first
    deletedResources,         \* history: the purgatory entries that the last
                              \* prepareToMapBuffers or the destructor deleted
    gl                        \* the GL back end's PLSImplRWTexture: the flush it
                              \* is in, the GLState and the GL calls of the flush

\* The state of the Vulkan back end and of the calls into it.
implVars ==
    <<call, desc, cmds, descriptorSetPoolsMade, descriptorSetsAllocated,
      m_currentFrameIdx, m_bufferRingIdx,
      m_frameCompletionFences,
      waitedFence, fenceSignaled, fenceSlots, flushesThisFrame,
      m_descriptorSetPoolPool, descriptorSetPools, imageTextures,
      descriptorSetAllocs, renderBuffers, meshReads, renderTarget,
      m_drawPipelineLayouts, m_drawPipelines, drawPipeline, m_drawShaders,
      m_renderPasses, constructed>>

\* A draw's resource counters and their vector form.
counterVars == <<m_resourceCounts, vec, resourceCounters>>

vars == <<implVars, plsRenderContext, counterVars, subdivision, gl, m_resourcePurgatory, deletedResources>>

\* Everything the engine owns: all of the state but the record of the last
\* call and the calls it made.
engineVars ==
    <<m_currentFrameIdx, m_bufferRingIdx, m_frameCompletionFences,
      waitedFence, fenceSignaled, fenceSlots,
      m_descriptorSetPoolPool, descriptorSetPools, imageTextures,
      descriptorSetAllocs, renderBuffers, meshReads, renderTarget,
      m_drawPipelineLayouts>>

\* The FlushDescriptor before any flush.
NoDesc ==
    [interlockMode |-> "none", colorLoadAction |-> "none",
     complexGradSpanCount |-> 0, simpleGradTexelsHeight |-> 0,
     tessVertexSpanCount |-> 0, advancedBlend |-> FALSE, drawList |-> <<>>,
     isFinalFlushOfFrame |-> FALSE, frameCompletionFence |-> NullFence,
     coverageClearValue |-> 0]

\* PLSTextureVulkanImpl's constructor: the image waits in m_imageUploadBuffer
\* (hasUpdates), and no descriptor set has been allocated for it.
PLSTextureVulkanImpl(width, height, mipLevelCount) ==
    [hasUpdates |-> TRUE, width |-> width, height |-> height,
     mipLevels |-> mipLevelCount,
     m_imageTextureDescriptorSet |-> NullDescriptorSet,
     m_descriptorSetFrameIdx |-> kNoFrameIdx]

\* RenderBufferVulkanImpl's constructor. contentsAt is the slot whose
\* mapping the most recent onMap returned, flushMappedContentsAt the slot
\* that the onUnmap after it flushed; -1 stands for none.
RenderBufferVulkanImpl ==
    [m_bufferRingIdx |-> -1, mapped |-> FALSE, contentsAt |-> -1,
     flushMappedContentsAt |-> -1]

(***************************************************************************)
(* uint32_t values, as two 16-bit halves, and the arithmetic that flush()  *)
(* does on the pipeline key: every result is reduced modulo 2^32.          *)
(***************************************************************************)
(* PLSDraw::ResourceCounters and its vector form. toVec() and the          *)
(* constructor from a VecType copy the object representation: the bytes of *)
(* the eight size_t members in the order of their declaration.             *)
(***************************************************************************)
\* sizeof(size_t) and the number of values of a byte.
SizeofSizeT == 8

ByteValues == 256

\* A declaration that puts pathCount first.
ResourceCounterMembersPathCountFirst ==
    <<"pathCount", "midpointFanTessVertexCount", "outerCubicTessVertexCount",
      "contourCount", "tessellatedSegmentCount", "maxTriangleVertexCount",
      "imageDrawCount", "complexGradientSpanCount">>

\* The members of ResourceCounters, in the order of their declaration.
ResourceCounterMembers ==
    <<"midpointFanTessVertexCount", "outerCubicTessVertexCount", "pathCount",
      "contourCount", "tessellatedSegmentCount", "maxTriangleVertexCount",
      "imageDrawCount", "complexGradientSpanCount">>

\* ResourceCounters() = default: every member is 0.
ResourceCounters ==
    [midpointFanTessVertexCount |-> 0, outerCubicTessVertexCount |-> 0,
     pathCount |-> 0, contourCount |-> 0, tessellatedSegmentCount |-> 0,
     maxTriangleVertexCount |-> 0, imageDrawCount |-> 0,
     complexGradientSpanCount |-> 0]

\* The lanes of VecType = simd::gvec<size_t, 8>.
VecLanes == 0 .. 7

\* The bytes of a size_t, least significant first, and the size_t of bytes.
RECURSIVE BytesOfSizeT(_, _)
BytesOfSizeT(value, n) ==
    IF n = 0
    THEN <<>>
    ELSE <<value % ByteValues>> \o BytesOfSizeT(value \div ByteValues, n - 1)

RECURSIVE SizeTOfBytes(_)
SizeTOfBytes(bytes) ==
    IF bytes = <<>>
    THEN 0
    ELSE Head(bytes) + ByteValues * SizeTOfBytes(Tail(bytes))

\* The object representation of a ResourceCounters: its members' bytes, one
\* member after the other in declaration order, without padding.
RECURSIVE MemberBytes(_, _)
MemberBytes(counters, members) ==
    IF members = <<>>
    THEN <<>>
    ELSE BytesOfSizeT(counters[Head(members)], SizeofSizeT)
             \o MemberBytes(counters, Tail(members))

BytesOfResourceCounters(counters) ==
    MemberBytes(counters, ResourceCounterMembers)

\* The object representation of a VecType: lane 0 first.
RECURSIVE LaneBytes(_, _)
LaneBytes(v, lane) ==
    IF lane \notin VecLanes
    THEN <<>>
    ELSE BytesOfSizeT(v[lane], SizeofSizeT) \o LaneBytes(v, lane + 1)

\* RIVE_INLINE_MEMCPY(dst, src, n): the first n bytes of dst become those
\* of src.
InlineMemcpy(dst, src, n) ==
    [p \in 1 .. Len(dst) |-> IF p <= n THEN src[p] ELSE dst[p]]

\* The bytes of a VecType before anything is stored in it; toVec overwrites
\* all of them.
UninitializedBytes == [p \in 1 .. 8 * SizeofSizeT |-> 0]

\* The size_t at the offset of the (index + 1)-th size_t of an object.
SizeTAt(bytes, index) ==
    SizeTOfBytes(SubSeq(bytes, index * SizeofSizeT + 1,
                        (index + 1) * SizeofSizeT))

\* ResourceCounters::toVec.
toVec(counters) ==
    LET bytes == InlineMemcpy(UninitializedBytes,
                              BytesOfResourceCounters(counters),
                              8 * SizeofSizeT)
    IN  [lane \in VecLanes |-> SizeTAt(bytes, lane)]

\* ResourceCounters(const VecType&).
ResourceCountersOf(v) ==
    LET bytes == InlineMemcpy(BytesOfResourceCounters(ResourceCounters),
                              LaneBytes(v, 0), 8 * SizeofSizeT)
    IN  [member \in DOMAIN ResourceCounters |->
            SizeTAt(bytes,
                    (CHOOSE index \in DOMAIN ResourceCounterMembers :
                         ResourceCounterMembers[index] = member) - 1)]

(***************************************************************************)
(* InteriorTriangulationDraw's subdivision constants. pls.hpp, which gives *)
(* kMaxParametricSegments and kOuterCurvePatchSegmentSpan their values, is *)
(* not among the sources, so the constants are computed for a build: a     *)
(* pair of values for the two.                                             *)
(***************************************************************************)
\* constexpr static size_t kJoinSegmentCount = 1.
kJoinSegmentCount == 1

kPatchSegmentCountExcludingJoin(build) ==
    build.kOuterCurvePatchSegmentSpan - kJoinSegmentCount

\* A maximum that rounds the quotient down.
kMaxCurveSubdivisionsRoundedDown(build) ==
    build.kMaxParametricSegments \div kPatchSegmentCountExcludingJoin(build)

kMaxCurveSubdivisions(build) ==
    (build.kMaxParametricSegments + kPatchSegmentCountExcludingJoin(build) - 1)
        \div kPatchSegmentCountExcludingJoin(build)

\* std::clamp<size_t>(v, lo, hi).
clamp(v, lo, hi) == IF v < lo THEN lo ELSE IF hi < v THEN hi ELSE v

\* The size_t values, scaled down from 2^64 of them: a float at or above
\* SizeTValues, the float infinity among them, has no size_t.
SizeTValues == 2048

\* size_t numSubdivisions = ceilf(...): the conversion of a float that holds
\* a whole number. The C++ standard leaves the conversion of a value
\* outside the range of size_t undefined; `undefined` is what the build
\* makes of it.
SizeTOfFloat(whole, undefined) ==
    IF whole < SizeTValues THEN whole ELSE undefined

\* A FindSubdivisionCount that clamps the float before it converts it.
FindSubdivisionCountClampedAsFloat(build, cubic, undefined) ==
    LET quotient ==
            (cubic + kPatchSegmentCountExcludingJoin(build) - 1)
                \div kPatchSegmentCountExcludingJoin(build)
    IN  SizeTOfFloat(clamp(quotient, 1, kMaxCurveSubdivisions(build)),
                     undefined)

\* FindSubdivisionCount for a curve whose wangs_formula::cubic is `cubic`
\* segments: the quotient rounded up by ceilf, converted to size_t, clamped.
\* A fraction of a segment rounds up like the next whole estimate.
FindSubdivisionCount(build, cubic, undefined) ==
    LET numSubdivisions ==
            SizeTOfFloat((cubic + kPatchSegmentCountExcludingJoin(build) - 1)
                             \div kPatchSegmentCountExcludingJoin(build),
                         undefined)
    IN  clamp(numSubdivisions, 1, kMaxCurveSubdivisions(build))

\* The variable before any call.
NoSubdivision ==
    [kMaxParametricSegments |-> 0, kOuterCurvePatchSegmentSpan |-> 0,
     kPatchSegmentCountExcludingJoin |-> 0, kMaxCurveSubdivisions |-> 0,
     cubic |-> 0, numSubdivisions |-> 0]

(***************************************************************************)
Half == 65536

U32(hi, lo) == [hi |-> hi, lo |-> lo]

\* x << 1 and x >> 1.
ShiftLeftOne(x) ==
    U32((x.hi * 2 + x.lo \div (Half \div 2)) % Half, (x.lo * 2) % Half)

ShiftRightOne(x) ==
    U32(x.hi \div 2, x.lo \div 2 + (x.hi % 2) * (Half \div 2))

RECURSIVE ShiftLeft(_, _)
ShiftLeft(x, n) == IF n = 0 THEN x ELSE ShiftLeft(ShiftLeftOne(x), n - 1)

RECURSIVE ShiftRight(_, _)
ShiftRight(x, n) == IF n = 0 THEN x ELSE ShiftRight(ShiftRightOne(x), n - 1)

\* a | b on naturals.
RECURSIVE BitOr(_, _)
BitOr(a, b) ==
    IF a = 0 THEN b
    ELSE IF b = 0 THEN a
    ELSE 2 * BitOr(a \div 2, b \div 2) + (IF a % 2 = 1 \/ b % 2 = 1 THEN 1 ELSE 0)

\* x | n, x * n, x / n and x + n for 0 <= n < Half.
Or32(x, n) == U32(x.hi, BitOr(x.lo, n))

Mul32(x, n) ==
    LET low == x.lo * n
    IN  U32((x.hi * n + low \div Half) % Half, low % Half)

Div32(x, n) == U32(x.hi \div n, ((x.hi % n) * Half + x.lo) \div n)

Add32(x, n) ==
    LET low == x.lo + n
    IN  U32((x.hi + low \div Half) % Half, low % Half)

(***************************************************************************)
(* DrawPipelineLayout's render pass variants, and the selection of the     *)
(* DrawPipeline of a draw in flush().                                      *)
(***************************************************************************)
kRenderPassVariantCount == 6

kDrawPipelineOptionCount == 1

FramebufferFormats == {"B8G8R8A8_UNORM", "R8G8B8A8_UNORM"}

\* static_cast<int>(loadAction).
LoadActionIdx(loadAction) ==
    CASE loadAction = "clear" -> 0
      [] loadAction = "preserveRenderTarget" -> 1
      [] loadAction = "dontCare" -> 2

\* static_cast<pls::LoadAction>(idx).
LoadActionAt(idx) ==
    CASE idx = 0 -> "clear"
      [] idx = 1 -> "preserveRenderTarget"
      [] idx = 2 -> "dontCare"
      [] OTHER -> "none"

\* An index that keeps the format in bit 1, where the load action is.
RenderPassVariantIdxFormatInBitOne(framebufferFormat, loadAction) ==
    BitOr(LoadActionIdx(loadAction),
          2 * (IF framebufferFormat = "B8G8R8A8_UNORM" THEN 1 ELSE 0))

RenderPassVariantIdx(framebufferFormat, loadAction) ==
    BitOr(2 * LoadActionIdx(loadAction),
          IF framebufferFormat = "B8G8R8A8_UNORM" THEN 1 ELSE 0)

FormatFromRenderPassVariant(idx) ==
    IF idx % 2 = 1 THEN "B8G8R8A8_UNORM" ELSE "R8G8B8A8_UNORM"

LoadOpFromRenderPassVariant(idx) ==
    LET loadAction == LoadActionAt(idx \div 2)
    IN  CASE loadAction = "preserveRenderTarget" -> "LOAD_OP_LOAD"
          [] loadAction = "clear" -> "LOAD_OP_CLEAR"
          [] loadAction = "dontCare" -> "LOAD_OP_DONT_CARE"
          [] OTHER -> "UNREACHABLE"

\* DrawPipelineLayout::renderPassAt: the render pass of a variant is made
\* with the format and the load op that the index decodes to.
renderPassAt(renderPassVariantIdx) ==
    [format |-> FormatFromRenderPassVariant(renderPassVariantIdx),
     loadOp |-> LoadOpFromRenderPassVariant(renderPassVariantIdx)]

\* DrawPipelineOptions as an integer.
DrawPipelineOptionsOf(fillModeNonSolid, wireframe) ==
    IF fillModeNonSolid /\ wireframe THEN 1 ELSE 0

\* The two asserts of flush() on the pipeline key.
ShiftKeepsKey(shaderKey) ==
    ShiftRight(ShiftLeft(shaderKey, kDrawPipelineOptionCount),
               kDrawPipelineOptionCount) = shaderKey

MultiplyKeepsKey(pipelineKey) ==
    Div32(Mul32(pipelineKey, kRenderPassVariantCount), kRenderPassVariantCount)
        = pipelineKey

\* pipelineKey after "(pipelineKey << kDrawPipelineOptionCount) | options".
KeyWithOptions(shaderKey, options) ==
    Or32(ShiftLeft(shaderKey, kDrawPipelineOptionCount), options)

\* Both asserts hold for the shader key and the options.
AssertsHold(shaderKey, options) ==
    /\ ShiftKeepsKey(shaderKey)
    /\ MultiplyKeepsKey(KeyWithOptions(shaderKey, options))

\* pipelineKey after "pipelineKey * kRenderPassVariantCount + renderPassVariantIdx".
PipelineKey(shaderKey, options, renderPassVariantIdx) ==
    Add32(Mul32(KeyWithOptions(shaderKey, options), kRenderPassVariantCount),
          renderPassVariantIdx)

\* DrawPipeline's constructor: what the pipeline is made of.
DrawPipeline(shaderKey, options, drawRenderPass) ==
    [shaderKey |-> shaderKey, drawPipelineOptions |-> options,
     renderPass |-> drawRenderPass]

\* No pipeline.
NoDrawPipeline == [outcome |-> "none"]

\* DrawPipelines that the cache holds in the model.
MaxPipelines == 2

\* The constructor of a cached object has run once more.
Construct(count, object) ==
    [o \in DOMAIN count \cup {object} |->
        IF o = object
        THEN (IF o \in DOMAIN count THEN count[o] ELSE 0) + 1
        ELSE count[o]]

\* std::map::try_emplace, when the key is not in the map.
Emplace(map, key, value) ==
    [k \in DOMAIN map \cup {key} |-> IF k = key THEN value ELSE map[k]]

\* The caches of the engine, as flush() finds them.
PipelineCaches ==
    [m_drawPipelineLayouts |-> m_drawPipelineLayouts,
     m_renderPasses |-> m_renderPasses, m_drawShaders |-> m_drawShaders,
     m_drawPipelines |-> m_drawPipelines, constructed |-> constructed]

\* flush(): "if (m_drawPipelineLayouts[interlockIdx] == nullptr)", then
\* std::make_unique<DrawPipelineLayout>.
DrawPipelineLayoutAt(c, interlockMode) ==
    IF interlockMode \in c.m_drawPipelineLayouts
    THEN c
    ELSE [c EXCEPT !.m_drawPipelineLayouts = @ \cup {interlockMode},
                   !.constructed =
                       Construct(@, <<"DrawPipelineLayout", interlockMode>>)]

\* A renderPassAt that creates the render pass on every call.
LayoutRenderPassAtUncached(c, interlockMode, renderPassVariantIdx) ==
    [c EXCEPT !.m_renderPasses =
                  Emplace(@, <<interlockMode, renderPassVariantIdx>>,
                          renderPassAt(renderPassVariantIdx)),
              !.constructed =
                  Construct(@, <<"VkRenderPass", interlockMode,
                                 renderPassVariantIdx>>)]

\* DrawPipelineLayout::renderPassAt, with the layout's m_renderPasses: the
\* render pass is created "if (m_renderPasses[renderPassVariantIdx] ==
\* VK_NULL_HANDLE)".
LayoutRenderPassAt(c, interlockMode, renderPassVariantIdx) ==
    IF <<interlockMode, renderPassVariantIdx>> \in DOMAIN c.m_renderPasses
    THEN c
    ELSE [c EXCEPT !.m_renderPasses =
                       Emplace(@, <<interlockMode, renderPassVariantIdx>>,
                               renderPassAt(renderPassVariantIdx)),
                   !.constructed =
                       Construct(@, <<"VkRenderPass", interlockMode,
                                      renderPassVariantIdx>>)]

\* DrawShader's constructor.
DrawShader(shaderKey, interlockMode) ==
    [shaderKey |-> shaderKey, interlockMode |-> interlockMode]

\* DrawPipeline's constructor, on the caches: "m_drawShaders.try_emplace(
\* shaderKey, ...)" makes the DrawShader of the pipeline unless the map has it.
DrawShaderAt(c, shaderKey, interlockMode) ==
    IF shaderKey \in DOMAIN c.m_drawShaders
    THEN c
    ELSE [c EXCEPT !.m_drawShaders =
                       Emplace(@, shaderKey, DrawShader(shaderKey, interlockMode)),
                   !.constructed = Construct(@, <<"DrawShader", shaderKey>>)]

\* A lookup that constructs a DrawPipeline for every draw and replaces the
\* one that the map holds.
DrawPipelineAtUncached(c, pipelineKey, shaderKey, interlockMode, options, drawRenderPass) ==
    [DrawShaderAt(c, shaderKey, interlockMode)
        EXCEPT !.m_drawPipelines =
                   Emplace(@, pipelineKey,
                           DrawPipeline(shaderKey, options, drawRenderPass)),
               !.constructed = Construct(@, <<"DrawPipeline", pipelineKey>>)]

\* flush(): "m_drawPipelines.try_emplace(pipelineKey, ...)": the DrawPipeline
\* is constructed, and with it its DrawShader, unless the map has the key.
DrawPipelineAt(c, pipelineKey, shaderKey, interlockMode, options, drawRenderPass) ==
    IF pipelineKey \in DOMAIN c.m_drawPipelines
    THEN c
    ELSE [DrawShaderAt(c, shaderKey, interlockMode)
             EXCEPT !.m_drawPipelines =
                        Emplace(@, pipelineKey,
                                DrawPipeline(shaderKey, options, drawRenderPass)),
                    !.constructed = Construct(@, <<"DrawPipeline", pipelineKey>>)]

\* flush(), for one draw: the DrawPipelineLayout of the interlock mode, the
\* render pass variant of the target's format and the flush's load action,
\* the pipeline key, m_drawPipelines.try_emplace and the pipeline that is
\* bound. An assert that fails ends the program in a debug build, and what
\* the flush had made by then with it; it is compiled out otherwise.
SelectDrawPipeline(shaderKey, interlockMode, fillModeNonSolid, wireframe, framebufferFormat, colorLoadAction) ==
    \E renderPassVariantIdx \in {RenderPassVariantIdx(framebufferFormat, colorLoadAction)},
       options \in {DrawPipelineOptionsOf(fillModeNonSolid, wireframe)} :
    \E drawRenderPass \in {renderPassAt(renderPassVariantIdx)},
       pipelineKey \in {PipelineKey(shaderKey, options, renderPassVariantIdx)},
       assertsHold \in {AssertsHold(shaderKey, options)} :
    \E request \in {[shaderKey |-> shaderKey, drawPipelineOptions |-> options,
                     framebufferFormat |-> framebufferFormat,
                     colorLoadAction |-> colorLoadAction,
                     renderPassVariantIdx |-> renderPassVariantIdx,
                     drawRenderPass |-> drawRenderPass,
                     assertsHold |-> assertsHold]} :
        /\ call' = "flush"
        /\ \/ /\ ~assertsHold
              /\ drawPipeline' = [outcome |-> "assert", request |-> request]
              /\ UNCHANGED <<m_drawPipelineLayouts, m_renderPasses, m_drawShaders,
                             m_drawPipelines, constructed>>
           \/ /\ \/ pipelineKey \in DOMAIN m_drawPipelines
                 \/ Cardinality(DOMAIN m_drawPipelines) < MaxPipelines
              /\ \E c \in {DrawPipelineAt(
                               LayoutRenderPassAt(
                                   DrawPipelineLayoutAt(PipelineCaches, interlockMode),
                                   interlockMode, renderPassVariantIdx),
                               pipelineKey, shaderKey, interlockMode, options,
                               drawRenderPass)} :
                     /\ m_drawPipelineLayouts' = c.m_drawPipelineLayouts
                     /\ m_renderPasses' = c.m_renderPasses
                     /\ m_drawShaders' = c.m_drawShaders
                     /\ m_drawPipelines' = c.m_drawPipelines
                     /\ constructed' = c.constructed
                     /\ drawPipeline' =
                            [outcome |-> "bound", request |-> request,
                             pipelineKey |-> pipelineKey,
                             emplaced |-> pipelineKey \notin DOMAIN m_drawPipelines,
                             pipeline |-> c.m_drawPipelines[pipelineKey]]
        /\ UNCHANGED <<desc, cmds, descriptorSetPoolsMade, descriptorSetsAllocated, flushesThisFrame, plsRenderContext, counterVars, subdivision, gl, m_resourcePurgatory, deletedResources>>
        /\ UNCHANGED <<m_currentFrameIdx, m_bufferRingIdx, m_frameCompletionFences,
                       waitedFence, fenceSignaled, fenceSlots,
                       m_descriptorSetPoolPool, descriptorSetPools, imageTextures,
                       descriptorSetAllocs, renderBuffers, meshReads, renderTarget>>

(***************************************************************************)
(* The front end: PLSDraw objects and the gradient texture they allocate   *)
(* rows of. A draw is made in the frame's arena and held by a              *)
(* PLSDrawUniquePtr until the context takes it into the draw list of the   *)
(* logical flush; a gradient that does not fit spills the flush.           *)
(***************************************************************************)
\* Rows of the gradient texture.
GradTextureRows == 2

\* Simple (two-stop) ramps that one row of the gradient texture holds.
SimpleRampsPerRow == 2

\* PLSDraws that the client makes.
MaxDraws == 4

\* PLSGradient objects: the first SimpleRampsPerRow of them are simple ramps,
\* the others complex ones, one more than the gradient texture holds.
Gradients == 1 .. (SimpleRampsPerRow + GradTextureRows)

IsComplex(g) == g > SimpleRampsPerRow

\* No PLSDraw: a null PLSDrawUniquePtr.
NoDraw == [id |-> 0, gradient |-> 0, imageTexture |-> 0]

\* PLSDraw's constructor, for draw number id: m_gradientRef and
\* m_imageTextureRef are references to shared objects, or null (0).
PLSDraw(id, gradient, imageTexture) ==
    [id |-> id, gradient |-> gradient, imageTexture |-> imageTexture]

\* The shared objects that draw holds a reference to.
RefsOf(draw) ==
    (IF draw.gradient = 0 THEN {} ELSE {<<"gradient", draw.gradient>>})
    \cup (IF draw.imageTexture = 0 THEN {} ELSE {<<"imageTexture", draw.imageTexture>>})

SharedObjects ==
    {<<"gradient", g>> : g \in Gradients} \cup {<<"imageTexture", 1>>}

\* The front end at the start of a frame.
NoDraws ==
    [drawList |-> <<>>,            \* the draws of the logical flush, in order
     pending |-> NoDraw,           \* the draw a PLSDrawUniquePtr of the client holds
     spilled |-> FALSE,            \* allocateGradientIfNeeded has returned false
     retry |-> FALSE,              \* the partial flush is done, the draw is not in yet
     gradients |-> {},             \* gradients that have a place in the texture
     simpleRampCount |-> 0,        \* simple ramps packed into the bottom rows
     complexRampRows |-> 0,        \* the row cursor of the complex ramps
     lastAllocation |-> "none",    \* what allocateGradientIfNeeded returned last
     accepted |-> <<>>,            \* history: ids of the draws handed to the context
     emitted |-> <<>>,             \* history: ids of the draws that flushes emitted
     made |-> 0,                   \* draws made so far
     arena |-> {},                 \* ids of the draws in the live arena block
     refCnt |-> [o \in SharedObjects |-> 0],   \* references held by draws
     releaseCount |-> [i \in 1 .. MaxDraws |-> 0]]  \* releaseRefs() calls per draw

\* Rows that n simple ramps take.
SimpleRampRows(n) == (n + SimpleRampsPerRow - 1) \div SimpleRampsPerRow

\* An allocation that looks for room even for a gradient that has a place.
allocateGradientWithoutCache(c, draw) ==
    LET g == draw.gradient
        simple == c.simpleRampCount + (IF IsComplex(g) THEN 0 ELSE 1)
        complex == c.complexRampRows + (IF IsComplex(g) THEN 1 ELSE 0)
    IN  IF g = 0
        THEN [ok |-> TRUE, ctx |-> c]
        ELSE IF SimpleRampRows(simple) + complex > GradTextureRows
        THEN [ok |-> FALSE, ctx |-> c]
        ELSE [ok |-> TRUE,
              ctx |-> [c EXCEPT !.gradients = @ \cup {g},
                                !.simpleRampCount = simple,
                                !.complexRampRows = complex]]

\* PLSDraw::allocateGradientIfNeeded: true for a draw without a gradient and
\* for a gradient that has a place already (gradients are cached by identity
\* within a flush); otherwise the gradient takes room, a texel pair of a
\* bottom row or a row of its own, and false is returned when there is none.
allocateGradientIfNeeded(c, draw) ==
    LET g == draw.gradient
        simple == c.simpleRampCount + (IF IsComplex(g) THEN 0 ELSE 1)
        complex == c.complexRampRows + (IF IsComplex(g) THEN 1 ELSE 0)
    IN  IF g = 0 \/ g \in c.gradients
        THEN [ok |-> TRUE, ctx |-> c]
        ELSE IF SimpleRampRows(simple) + complex > GradTextureRows
        THEN [ok |-> FALSE, ctx |-> c]
        ELSE [ok |-> TRUE,
              ctx |-> [c EXCEPT !.gradients = @ \cup {g},
                                !.simpleRampCount = simple,
                                !.complexRampRows = complex]]

\* PLSDraw::releaseRefs: every reference the draw holds is dropped.
releaseRefs(c, draw) ==
    [c EXCEPT
        !.refCnt = [o \in SharedObjects |->
                       IF o \in RefsOf(draw) THEN @[o] - 1 ELSE @[o]],
        !.releaseCount[draw.id] = @ + 1]

\* A deleter that only lets go of the draw.
PLSDrawForget(c, draw) == c

\* PLSDrawReleaseRefs::operator(), the deleter of PLSDrawUniquePtr.
PLSDrawReleaseRefs(c, draw) == releaseRefs(c, draw)

RECURSIVE ReleaseDrawList(_, _, _)
ReleaseDrawList(c, drawList, n) ==
    IF n > Len(drawList)
    THEN c
    ELSE ReleaseDrawList(releaseRefs(c, drawList[n]), drawList, n + 1)

\* The ids of the draws of a list.
Ids(drawList) == [n \in DOMAIN drawList |-> drawList[n].id]

\* A logical flush that leaves the gradient texture's rows as they are.
logicalFlushKeepsRows(c) ==
    [ReleaseDrawList(c, c.drawList, 1) EXCEPT
        !.emitted = @ \o Ids(c.drawList),
        !.drawList = <<>>]

\* A logical flush: the draws queued so far are emitted, their references
\* released and the list cleared; the gradient texture starts over.
logicalFlush(c) ==
    [ReleaseDrawList(c, c.drawList, 1) EXCEPT
        !.emitted = @ \o Ids(c.drawList),
        !.drawList = <<>>,
        !.gradients = {},
        !.simpleRampCount = 0,
        !.complexRampRows = 0]

\* The client makes a draw; a PLSDrawUniquePtr holds it.
MakeDraw(gradient, imageTexture) ==
    /\ plsRenderContext.pending = NoDraw
    /\ plsRenderContext.made < MaxDraws
    /\ LET draw == PLSDraw(plsRenderContext.made + 1, gradient, imageTexture)
       IN  plsRenderContext' =
               [plsRenderContext EXCEPT
                   !.made = @ + 1,
                   !.pending = draw,
                   !.arena = @ \cup {draw.id},
                   !.refCnt = [o \in SharedObjects |->
                                  IF o \in RefsOf(draw) THEN @[o] + 1 ELSE @[o]]]
    /\ UNCHANGED implVars
    /\ UNCHANGED <<counterVars, subdivision, gl, m_resourcePurgatory, deletedResources>>

\* The client hands the draw to the context, which takes it into the draw
\* list if its gradient gets a place.
PushDraw ==
    /\ plsRenderContext.pending # NoDraw
    /\ ~plsRenderContext.spilled
    /\ LET c == plsRenderContext
           draw == c.pending
           r == allocateGradientIfNeeded(c, draw)
           accepted == IF c.retry THEN c.accepted ELSE Append(c.accepted, draw.id)
       IN  plsRenderContext' =
               IF r.ok
               THEN [r.ctx EXCEPT !.drawList = Append(@, draw),
                                  !.pending = NoDraw,
                                  !.retry = FALSE,
                                  !.accepted = accepted,
                                  !.lastAllocation = "true"]
               ELSE [c EXCEPT !.spilled = TRUE,
                              !.retry = FALSE,
                              !.accepted = accepted,
                              !.lastAllocation = "false"]
    /\ UNCHANGED implVars
    /\ UNCHANGED <<counterVars, subdivision, gl, m_resourcePurgatory, deletedResources>>

\* After a false return: the partial flush, and then the draw is retried.
PartialFlush ==
    /\ plsRenderContext.spilled
    /\ plsRenderContext' =
           [logicalFlush(plsRenderContext) EXCEPT !.spilled = FALSE, !.retry = TRUE]
    /\ UNCHANGED implVars
    /\ UNCHANGED <<counterVars, subdivision, gl, m_resourcePurgatory, deletedResources>>

\* A failure path: the client gives up a draw that it has not handed over,
\* and the PLSDrawUniquePtr goes out of scope.
DropDraw ==
    /\ plsRenderContext.pending # NoDraw
    /\ ~plsRenderContext.spilled
    /\ ~plsRenderContext.retry
    /\ plsRenderContext' =
           [PLSDrawReleaseRefs(plsRenderContext, plsRenderContext.pending) EXCEPT
               !.pending = NoDraw]
    /\ UNCHANGED implVars
    /\ UNCHANGED <<counterVars, subdivision, gl, m_resourcePurgatory, deletedResources>>

\* The end of the frame: the last logical flush, and the arena is reset.
EndFrame ==
    /\ plsRenderContext.pending = NoDraw
    /\ plsRenderContext.arena # {}
    /\ plsRenderContext' = [logicalFlush(plsRenderContext) EXCEPT !.arena = {}]
    /\ UNCHANGED implVars
    /\ UNCHANGED <<counterVars, subdivision, gl, m_resourcePurgatory, deletedResources>>

(***************************************************************************)
(* The GL back end's read-write-texture PLS implementation                 *)
(* (src/renderer/gl/pls_impl_rw_texture.cpp). A PLSRenderTargetGL has an   *)
(* internal framebuffer, whose draw buffers are the PLS planes, and a      *)
(* destination framebuffer; a FramebufferRenderTargetGL wraps an external  *)
(* framebuffer object and can attach an offscreen target texture as the    *)
(* color plane of its internal framebuffer.                                *)
(***************************************************************************)
\* The kinds of PLSRenderTargetGL that lite_rtti_cast tells apart.
RenderTargetGLs == {"FramebufferRenderTargetGL", "TextureRenderTargetGL"}

\* One GL call, or one call on the render target or the GLState: what was
\* called, on which binding target, the draw and read framebuffers bound
\* when it ran or that it bound, the PLS plane, a value and a
\* DrawBufferMask.
GLCmd(op, target, fb, from, plane, value, mask) ==
    [op |-> op, target |-> target, fb |-> fb, from |-> from, plane |-> plane,
     value |-> value, mask |-> mask]

\* The pls::FlushDescriptor fields that PLSImplRWTexture reads.
GLFlushDescriptor(interlockMode, combinedShaderFeatures, colorLoadAction, target, bounds, coverageClearValue) ==
    [interlockMode |-> interlockMode,
     combinedShaderFeatures |-> combinedShaderFeatures,
     colorLoadAction |-> colorLoadAction,
     renderTarget |-> target,
     renderTargetUpdateBounds |-> bounds,
     clearColor |-> 7,
     coverageClearValue |-> coverageClearValue]

NoGLDesc ==
    GLFlushDescriptor("none", {}, "dontCare", "TextureRenderTargetGL", 0, 0)

\* The PLSImplRWTexture and the GL context it drives, before the first
\* flush: no framebuffer bound, color writes enabled.
PLSImplRWTexture ==
    [at |-> "idle",                \* where the context's flush is
     desc |-> NoGLDesc,            \* the descriptor of the last flush
     calls |-> <<>>,               \* the calls of the last flush, in order
     colorWriteMask |-> TRUE,      \* GLState: the color write mask
     blendEquation |-> "none",     \* GLState: the blend equation
     drawFramebuffer |-> "none",   \* GL_DRAW_FRAMEBUFFER binding
     readFramebuffer |-> "none",   \* GL_READ_FRAMEBUFFER binding
     drawBuffers |-> {},           \* the draw buffers of the internal framebuffer
     shaderMiscFlags |-> "none"]   \* what atomicResolveShaderMiscFlags returned

GLCall(g, c) == [g EXCEPT !.calls = Append(@, c)]

\* PLSRenderTargetGL::bindDestinationFramebuffer(target).
bindDestinationFramebuffer(g, target) ==
    GLCall([g EXCEPT !.drawFramebuffer =
                         IF target = "GL_READ_FRAMEBUFFER" THEN @ ELSE "destination",
                     !.readFramebuffer =
                         IF target = "GL_DRAW_FRAMEBUFFER" THEN @ ELSE "destination"],
           GLCmd("bindDestinationFramebuffer", target, "destination", "", "", 0, {}))

\* PLSRenderTargetGL::bindInternalFramebuffer(target, drawBufferMask).
bindInternalFramebuffer(g, target, mask) ==
    GLCall([g EXCEPT !.drawFramebuffer =
                         IF target = "GL_READ_FRAMEBUFFER" THEN @ ELSE "internal",
                     !.readFramebuffer =
                         IF target = "GL_DRAW_FRAMEBUFFER" THEN @ ELSE "internal",
                     !.drawBuffers = mask],
           GLCmd("bindInternalFramebuffer", target, "internal", "", "", 0, mask))

\* PLSRenderTargetGL::bindHeadlessFramebuffer.
bindHeadlessFramebuffer(g) ==
    GLCall([g EXCEPT !.drawFramebuffer = "headless", !.readFramebuffer = "headless"],
           GLCmd("bindHeadlessFramebuffer", "GL_FRAMEBUFFER", "headless", "", "", 0, {}))

\* glutils::BlitFramebuffer(bounds, height): from the read framebuffer to the
\* draw framebuffer.
BlitFramebuffer(g, bounds) ==
    GLCall(g, GLCmd("BlitFramebuffer", "", g.drawFramebuffer, g.readFramebuffer,
                    "", bounds, g.drawBuffers))

\* glClearBufferfv / glClearBufferuiv(GL_COLOR, plane, value) on the draw
\* framebuffer, with the draw buffers it has.
ClearBuffer(g, op, plane, value) ==
    GLCall(g, GLCmd(op, "GL_COLOR", g.drawFramebuffer, "", plane, value, g.drawBuffers))

\* glClearColor and glClear(GL_COLOR_BUFFER_BIT) on the draw framebuffer; the
\* call's mask tells whether color writes were enabled.
Clear(g, value) ==
    GLCall(g, GLCmd("Clear", "GL_COLOR_BUFFER_BIT", g.drawFramebuffer, "", "", value,
                    IF g.colorWriteMask THEN {"color"} ELSE {}))

\* GLState::setWriteMasks(colorWriteMask, true, 0xff).
setWriteMasks(g, colorWriteMask) ==
    GLCall([g EXCEPT !.colorWriteMask = colorWriteMask],
           GLCmd("setWriteMasks", "", "", "", "", IF colorWriteMask THEN 1 ELSE 0, {}))

needs_coalesced_atomic_resolve_and_transfer(d) ==
    /\ "ENABLE_ADVANCED_BLEND" \in d.combinedShaderFeatures
    /\ d.renderTarget = "FramebufferRenderTargetGL"

\* activatePixelLocalStorage, up to "Clear the necessary textures": the
\* blend equation of a flush that renders directly to the raster pipeline,
\* or else the offscreen target texture of an external framebuffer and the
\* copy of the framebuffer's contents to it.
\* A step that copies the framebuffer whatever the load action is.
AttachOffscreenTargetAlwaysCopying(g, d) ==
    IF d.interlockMode = "atomics"
           /\ "ENABLE_ADVANCED_BLEND" \notin d.combinedShaderFeatures
    THEN GLCall([g EXCEPT !.blendEquation = "srcOver"],
                GLCmd("setBlendEquation", "", "", "", "srcOver", 0, {}))
    ELSE IF d.renderTarget = "FramebufferRenderTargetGL"
    THEN BlitFramebuffer(
             bindInternalFramebuffer(
                 bindDestinationFramebuffer(
                     GLCall(g, GLCmd("allocateOffscreenTargetTexture",
                                     "", "", "", "", 0, {})),
                     "GL_READ_FRAMEBUFFER"),
                 "GL_DRAW_FRAMEBUFFER", {"color"}),
             d.renderTargetUpdateBounds)
    ELSE g

AttachOffscreenTarget(g, d) ==
    LET renderDirectToRasterPipeline ==
            /\ d.interlockMode = "atomics"
            /\ "ENABLE_ADVANCED_BLEND" \notin d.combinedShaderFeatures
    IN  IF renderDirectToRasterPipeline
        THEN GLCall([g EXCEPT !.blendEquation = "srcOver"],
                    GLCmd("setBlendEquation", "", "", "", "srcOver", 0, {}))
        ELSE IF d.renderTarget = "FramebufferRenderTargetGL"
        THEN LET a == GLCall(g, GLCmd("allocateOffscreenTargetTexture",
                                      "", "", "", "", 0, {}))
             IN  IF d.colorLoadAction = "preserveRenderTarget"
                 THEN BlitFramebuffer(
                          bindInternalFramebuffer(
                              bindDestinationFramebuffer(a, "GL_READ_FRAMEBUFFER"),
                              "GL_DRAW_FRAMEBUFFER", {"color"}),
                          d.renderTargetUpdateBounds)
                 ELSE a
        ELSE g

\* The planes that activatePixelLocalStorage binds as image textures.
rwTexBuffers(d) ==
    {"coverage"}
        \cup (IF d.interlockMode = "rasterOrdering"
              THEN {"color", "scratchColor"}
              ELSE IF "ENABLE_ADVANCED_BLEND" \in d.combinedShaderFeatures
              THEN {"color"}
              ELSE {})
        \cup (IF "ENABLE_CLIPPING" \in d.combinedShaderFeatures
              THEN {"clip"}
              ELSE {})

\* "Clear the necessary textures", on the internal framebuffer.
ClearNecessaryTextures(g, d) ==
    LET g1 == bindInternalFramebuffer(g, "GL_FRAMEBUFFER", rwTexBuffers(d))
        g2 == IF d.colorLoadAction = "clear" /\ "color" \in rwTexBuffers(d)
              THEN ClearBuffer(g1, "ClearBufferfv", "color", d.clearColor)
              ELSE g1
        g3 == ClearBuffer(g2, "ClearBufferuiv", "coverage", d.coverageClearValue)
    IN  IF "ENABLE_CLIPPING" \in d.combinedShaderFeatures
        THEN ClearBuffer(g3, "ClearBufferuiv", "clip", 0)
        ELSE g3

\* The switch on desc.interlockMode, with a clear of the main framebuffer
\* in every atomics flush that loads by clearing.
BindInterlockFramebufferClearingAlways(g, d) ==
    IF d.interlockMode = "rasterOrdering"
    THEN bindHeadlessFramebuffer(g)
    ELSE LET b == bindDestinationFramebuffer(g, "GL_FRAMEBUFFER")
         IN  IF d.colorLoadAction = "clear"
             THEN Clear(b, d.clearColor)
             ELSE IF needs_coalesced_atomic_resolve_and_transfer(d)
             THEN setWriteMasks(b, FALSE)
             ELSE b

\* The switch on desc.interlockMode, with color writes disabled in every
\* atomics flush with advanced blend.
BindInterlockFramebufferMaskingAlways(g, d) ==
    IF d.interlockMode = "rasterOrdering"
    THEN bindHeadlessFramebuffer(g)
    ELSE LET b == bindDestinationFramebuffer(g, "GL_FRAMEBUFFER")
         IN  IF d.colorLoadAction = "clear" /\ "color" \notin rwTexBuffers(d)
             THEN Clear(b, d.clearColor)
             ELSE IF "ENABLE_ADVANCED_BLEND" \in d.combinedShaderFeatures
             THEN setWriteMasks(b, FALSE)
             ELSE b

\* The switch on desc.interlockMode: rasterOrdering binds a framebuffer with
\* no color attachments; atomics binds the destination framebuffer, and
\* clears it if the flush renders directly to it, or else disables color
\* writes until it is time to resolve.
BindInterlockFramebuffer(g, d) ==
    IF d.interlockMode = "rasterOrdering"
    THEN bindHeadlessFramebuffer(g)
    ELSE LET b == bindDestinationFramebuffer(g, "GL_FRAMEBUFFER")
         IN  IF d.colorLoadAction = "clear" /\ "color" \notin rwTexBuffers(d)
             THEN Clear(b, d.clearColor)
             ELSE IF needs_coalesced_atomic_resolve_and_transfer(d)
             THEN setWriteMasks(b, FALSE)
             ELSE b

activatePixelLocalStorage(g, d) ==
    LET g1 == GLCall(g, GLCmd("allocateInternalPLSTextures", "", "", "",
                              d.interlockMode, 0, {}))
        g2 == AttachOffscreenTarget(g1, d)
        g3 == ClearNecessaryTextures(g2, d)
        g4 == BindInterlockFramebuffer(g3, d)
        g5 == GLCall(g4, GLCmd("bindAsImageTextures", "", "", "", "", 0,
                               rwTexBuffers(d)))
    IN  GLCall(g5, GLCmd("MemoryBarrierByRegion", "GL_SHADER_IMAGE_ACCESS_BARRIER_BIT",
                         "", "", "", 0, {}))

atomicResolveShaderMiscFlags(d) ==
    IF needs_coalesced_atomic_resolve_and_transfer(d)
    THEN "coalescedResolveAndTransfer"
    ELSE "none"

setupAtomicResolve(g, d) ==
    IF needs_coalesced_atomic_resolve_and_transfer(d)
    THEN setWriteMasks(g, TRUE)
    ELSE g

\* A deactivate that copies back whatever the interlock mode is.
deactivatePixelLocalStorageInEveryMode(g, d) ==
    LET g1 == GLCall(g, GLCmd("MemoryBarrierByRegion", "GL_ALL_BARRIER_BITS",
                              "", "", "", 0, {}))
    IN  IF d.renderTarget = "FramebufferRenderTargetGL"
        THEN BlitFramebuffer(
                 bindDestinationFramebuffer(
                     bindInternalFramebuffer(g1, "GL_READ_FRAMEBUFFER", {"color"}),
                     "GL_DRAW_FRAMEBUFFER"),
                 d.renderTargetUpdateBounds)
        ELSE g1

deactivatePixelLocalStorage(g, d) ==
    LET g1 == GLCall(g, GLCmd("MemoryBarrierByRegion", "GL_ALL_BARRIER_BITS",
                              "", "", "", 0, {}))
    IN  IF d.interlockMode = "rasterOrdering"
               /\ d.renderTarget = "FramebufferRenderTargetGL"
        THEN BlitFramebuffer(
                 bindDestinationFramebuffer(
                     bindInternalFramebuffer(g1, "GL_READ_FRAMEBUFFER", {"color"}),
                     "GL_DRAW_FRAMEBUFFER"),
                 d.renderTargetUpdateBounds)
        ELSE g1

\* The state after MakeContext (constructor and initGPUObjects), with the
\* client's image textures decoded and its render buffers made. The null
\* image texture is 1x1 with one mip level; image texture t has t mip levels.
\* m_currentFrameIdx and m_bufferRingIdx have the initial values of the class
\* declaration: no frame yet, and a ring index that the first
\* prepareToMapBuffers advances to slot 0.
Init ==
    /\ call = "MakeContext"
    /\ desc = NoDesc
    /\ cmds = <<>>
    /\ descriptorSetPoolsMade = <<>>
    /\ descriptorSetsAllocated = <<>>
    /\ m_currentFrameIdx = 0
    /\ m_bufferRingIdx = -1
    /\ m_frameCompletionFences = [k \in RingSlots |-> NullFence]
    /\ waitedFence = NullFence
    /\ fenceSignaled = {}
    /\ fenceSlots = {}
    /\ flushesThisFrame = 0
    /\ m_descriptorSetPoolPool = <<>>
    /\ descriptorSetPools = <<>>
    /\ imageTextures =
           [t \in {0} \cup Textures |->
               IF t = 0
               THEN PLSTextureVulkanImpl(1, 1, 1)
               ELSE PLSTextureVulkanImpl(t, t, t)]
    /\ descriptorSetAllocs = [t \in Textures |-> 0]
    /\ renderBuffers = [b \in RenderBuffers |-> RenderBufferVulkanImpl]
    /\ meshReads = {}
    /\ renderTarget =
           [coverage |-> FALSE, clip |-> FALSE, scratchColor |-> FALSE,
            coverageAtomic |-> FALSE]
    /\ m_drawPipelineLayouts = {}
    /\ plsRenderContext = NoDraws
    /\ m_drawPipelines = [key \in {} |-> NoDrawPipeline]
    /\ drawPipeline = NoDrawPipeline
    /\ m_drawShaders = [key \in {} |-> NoDrawPipeline]
    /\ m_renderPasses = [key \in {} |-> NoDrawPipeline]
    /\ constructed = [object \in {} |-> 0]
    /\ m_resourceCounts = ResourceCounters
    /\ vec = toVec(ResourceCounters)
    /\ resourceCounters = ResourceCounters
    /\ subdivision = NoSubdivision
    /\ m_resourcePurgatory = <<>>
    /\ deletedResources = <<>>
    /\ gl = PLSImplRWTexture

(***************************************************************************)
(* The GPU: the queue finishes frames in the order they were submitted, at *)
(* any later time; the fence of a finished frame signals.                  *)
(***************************************************************************)
GpuSignalFence ==
    \E f \in {fs[1] : fs \in fenceSlots} \ fenceSignaled :
        /\ \A g \in {fs[1] : fs \in fenceSlots} \ fenceSignaled : f <= g
        /\ fenceSignaled' = fenceSignaled \cup {f}
        /\ meshReads' = {r \in meshReads : r[1] # f}
        /\ UNCHANGED <<call, desc, cmds, descriptorSetPoolsMade, descriptorSetsAllocated, m_currentFrameIdx, m_bufferRingIdx,
                       m_frameCompletionFences, waitedFence, fenceSlots,
                       flushesThisFrame, m_descriptorSetPoolPool,
                       descriptorSetPools, imageTextures, descriptorSetAllocs,
                       renderBuffers, renderTarget, m_drawPipelineLayouts,
                       plsRenderContext, counterVars, subdivision, gl, m_resourcePurgatory, deletedResources,
                   m_drawPipelines, drawPipeline, m_drawShaders,
                   m_renderPasses, constructed>>

(***************************************************************************)
(* PLSRenderContextVulkanImpl::decodeImageTexture: the client has a bitmap *)
(* of width x height texels decoded into a new texture, which takes the    *)
(* place of the texture it held as t.                                      *)
(***************************************************************************)
\* math::msb: one more than the index of the highest set bit, 0 for 0.
RECURSIVE msb(_)
msb(x) == IF x = 0 THEN 0 ELSE 1 + msb(x \div 2)

decodeImageTexture(t, width, height) ==
    /\ imageTextures' =
           [imageTextures EXCEPT
               ![t] = PLSTextureVulkanImpl(width, height,
                                           msb(BitOr(height, width)))]
    /\ call' = "decodeImageTexture"
    /\ UNCHANGED <<desc, cmds, descriptorSetPoolsMade, descriptorSetsAllocated, m_currentFrameIdx, m_bufferRingIdx,
                   m_frameCompletionFences, waitedFence, fenceSignaled, fenceSlots,
                   flushesThisFrame, m_descriptorSetPoolPool, descriptorSetPools,
                   descriptorSetAllocs, renderBuffers, meshReads, renderTarget,
                   m_drawPipelineLayouts, plsRenderContext, counterVars, subdivision, gl, m_resourcePurgatory, deletedResources,
                   m_drawPipelines, drawPipeline, m_drawShaders,
                   m_renderPasses, constructed>>

(***************************************************************************)
(* PLSRenderContextVulkanImpl::prepareToMapBuffers. The call blocks in     *)
(* fence->wait() until the fence it took out of the slot has signaled, so  *)
(* it completes only in a state where that fence is null or signaled.      *)
(***************************************************************************)
\* A ring index that advances by two slots.
NextRingIdxSkipsSlot(idx) == (idx + 2) % kBufferRingSize

NextRingIdx(idx) == (idx + 1) % kBufferRingSize

\* A prepareToMapBuffers that does not wait on the fence it takes out.
FenceWaitSkipped(fence) == TRUE

\* "if (fence != nullptr) fence->wait()" has returned.
FenceWait(fence) == fence # NullFence => fence \in fenceSignaled

\* "Delete resources that are no longer referenced by in-flight command
\* buffers", with an `if` where the source has a `while`.
DeleteOneExpiredResource(purgatory, currentFrameIdx) ==
    IF purgatory # <<>> /\ Head(purgatory).expirationFrameIdx <= currentFrameIdx
    THEN Tail(purgatory)
    ELSE purgatory

\* "Delete resources that are no longer referenced by in-flight command
\* buffers": entries leave the front while the front one has expired.
RECURSIVE DeleteExpiredResources(_, _)
DeleteExpiredResources(purgatory, currentFrameIdx) ==
    IF purgatory # <<>> /\ Head(purgatory).expirationFrameIdx <= currentFrameIdx
    THEN DeleteExpiredResources(Tail(purgatory), currentFrameIdx)
    ELSE purgatory

prepareToMapBuffers ==
    LET idx == NextRingIdx(m_bufferRingIdx)
        fence == m_frameCompletionFences[idx]
    IN  /\ m_currentFrameIdx < MaxFrames
        /\ FenceWait(fence)
        /\ m_currentFrameIdx' = m_currentFrameIdx + 1
        /\ m_bufferRingIdx' = idx
        /\ m_frameCompletionFences' = [m_frameCompletionFences EXCEPT ![idx] = NullFence]
        /\ waitedFence' = fence
        /\ call' = "prepareToMapBuffers"
        /\ flushesThisFrame' = 0
        /\ descriptorSetAllocs' = [t \in Textures |-> 0]
        /\ desc' = NoDesc
        /\ cmds' = <<>>
        /\ descriptorSetPoolsMade' = <<>>
        /\ descriptorSetsAllocated' = <<>>
        /\ m_resourcePurgatory' =
               DeleteExpiredResources(m_resourcePurgatory, m_currentFrameIdx + 1)
        /\ deletedResources' =
               SubSeq(m_resourcePurgatory, 1,
                      Len(m_resourcePurgatory) - Len(m_resourcePurgatory'))
        /\ UNCHANGED <<fenceSignaled, fenceSlots,
                       m_descriptorSetPoolPool, descriptorSetPools, imageTextures,
                       renderBuffers, meshReads, renderTarget,
                       m_drawPipelineLayouts, plsRenderContext, counterVars, subdivision, gl,
                   m_drawPipelines, drawPipeline, m_drawShaders,
                   m_renderPasses, constructed>>

(***************************************************************************)
(* PLSRenderContextVulkanImpl::~PLSRenderContextVulkanImpl. The destructor *)
(* blocks in fence->wait() for every fence that is stored in a ring slot,  *)
(* so it completes only in a state where each of them has signaled.        *)
(***************************************************************************)
\* A destructor that waits on no fence.
WaitForNoFence == TRUE

\* "for (fence : m_frameCompletionFences) if (fence != nullptr) fence->wait()"
\* has returned.
WaitForAllFences == \A k \in RingSlots : FenceWait(m_frameCompletionFences[k])

\* The context has been destroyed.
Destroyed == call = "~PLSRenderContextVulkanImpl"

DestroyPLSRenderContextVulkanImpl ==
    /\ ~Destroyed
    /\ WaitForAllFences
    /\ call' = "~PLSRenderContextVulkanImpl"
    /\ m_resourcePurgatory' = <<>>
    /\ deletedResources' = m_resourcePurgatory
    /\ UNCHANGED <<desc, cmds, descriptorSetPoolsMade, descriptorSetsAllocated, flushesThisFrame, plsRenderContext, counterVars, subdivision, gl,
                   m_drawPipelines, drawPipeline, m_drawShaders,
                   m_renderPasses, constructed>>
    /\ UNCHANGED engineVars

(***************************************************************************)
(* RenderBuffer::map / unmap on a RenderBufferVulkanImpl.                  *)
(***************************************************************************)
\* An onMap that moves the buffer to the context's ring slot.
onMapAtContextRingIdx(b) ==
    /\ ~renderBuffers[b].mapped
    /\ renderBuffers' =
           [renderBuffers EXCEPT
               ![b] = [m_bufferRingIdx |-> m_bufferRingIdx,
                       mapped |-> TRUE,
                       contentsAt |-> m_bufferRingIdx,
                       flushMappedContentsAt |-> -1]]
    /\ call' = "map"
    /\ UNCHANGED <<desc, cmds, descriptorSetPoolsMade, descriptorSetsAllocated, m_currentFrameIdx, m_bufferRingIdx,
                   m_frameCompletionFences, waitedFence, fenceSignaled, fenceSlots,
                   flushesThisFrame, m_descriptorSetPoolPool, descriptorSetPools,
                   imageTextures, descriptorSetAllocs, meshReads, renderTarget,
                   m_drawPipelineLayouts, plsRenderContext, counterVars, subdivision, gl, m_resourcePurgatory, deletedResources,
                   m_drawPipelines, drawPipeline, m_drawShaders,
                   m_renderPasses, constructed>>

onMap(b) ==
    /\ ~renderBuffers[b].mapped
    /\ renderBuffers' =
           [renderBuffers EXCEPT
               ![b] = [m_bufferRingIdx |-> NextRingIdx(@.m_bufferRingIdx),
                       mapped |-> TRUE,
                       contentsAt |-> NextRingIdx(@.m_bufferRingIdx),
                       flushMappedContentsAt |-> -1]]
    /\ call' = "map"
    /\ UNCHANGED <<desc, cmds, descriptorSetPoolsMade, descriptorSetsAllocated, m_currentFrameIdx, m_bufferRingIdx,
                   m_frameCompletionFences, waitedFence, fenceSignaled, fenceSlots,
                   flushesThisFrame, m_descriptorSetPoolPool, descriptorSetPools,
                   imageTextures, descriptorSetAllocs, meshReads, renderTarget,
                   m_drawPipelineLayouts, plsRenderContext, counterVars, subdivision, gl, m_resourcePurgatory, deletedResources,
                   m_drawPipelines, drawPipeline, m_drawShaders,
                   m_renderPasses, constructed>>

onUnmap(b) ==
    /\ renderBuffers[b].mapped
    /\ renderBuffers' =
           [renderBuffers EXCEPT
               ![b].mapped = FALSE,
               ![b].flushMappedContentsAt = renderBuffers[b].m_bufferRingIdx]
    /\ call' = "unmap"
    /\ UNCHANGED <<desc, cmds, descriptorSetPoolsMade, descriptorSetsAllocated, m_currentFrameIdx, m_bufferRingIdx,
                   m_frameCompletionFences, waitedFence, fenceSignaled, fenceSlots,
                   flushesThisFrame, m_descriptorSetPoolPool, descriptorSetPools,
                   imageTextures, descriptorSetAllocs, meshReads, renderTarget,
                   m_drawPipelineLayouts, plsRenderContext, counterVars, subdivision, gl, m_resourcePurgatory, deletedResources,
                   m_drawPipelines, drawPipeline, m_drawShaders,
                   m_renderPasses, constructed>>

(***************************************************************************)
(* The Vulkan calls a flush makes. Every entry of cmds has the same shape: *)
(*   op   the call                                                         *)
(*   obj  the render pass, pipeline, image, buffer ring or draw it names   *)
(*   a,b  an image barrier's old and new layout; a is also the buffer a    *)
(*        copy reads and the image texture a descriptor set is bound for   *)
(*   i    a draw's batch index (0 outside the draw list), a vertex         *)
(*        binding, a barrier's base mip level, a descriptor set's pool     *)
(*   j    a draw's element count, a buffer's ring slot, a barrier's level  *)
(*        count, a descriptor set's generation                             *)
(*   k    a render buffer id, a draw's instance count where the source     *)
(*        fixes it, or 1/0 for a descriptor set that is / is not valid     *)
(*        when it is bound                                                 *)
(*   first  an indexed draw's firstIndex where the source passes one       *)
(***************************************************************************)
Cmd(op, obj, a, b, i, j, k) ==
    [op |-> op, obj |-> obj, a |-> a, b |-> b, i |-> i, j |-> j, k |-> k,
     first |-> 0]

\* vkutil::insert_image_memory_barrier on mip levels [base, base + count).
ImageBarrier(image, old, new, base, count) ==
    Cmd("ImageBarrier", image, old, new, base, count, 0)

BeginRenderPass(pass) == Cmd("BeginRenderPass", pass, "", "", 0, 0, 0)

EndRenderPass(pass) == Cmd("EndRenderPass", pass, "", "", 0, 0, 0)

BindPipeline(pipeline) == Cmd("BindPipeline", pipeline, "", "", 0, 0, 0)

SetViewport == Cmd("SetViewport", "", "", "", 0, 0, 0)

SetScissor == Cmd("SetScissor", "", "", "", 0, 0, 0)

\* vkCmdBindVertexBuffers / vkCmdBindIndexBuffer of slot `slot` of a ring of
\* the context (buffer = 0), of a client render buffer, or of a static buffer
\* (slot = 0).
BindVertexBuffers(ring, binding, slot, buffer) ==
    Cmd("BindVertexBuffers", ring, "", "", binding, slot, buffer)

BindIndexBuffer(ring, slot, buffer) ==
    Cmd("BindIndexBuffer", ring, "", "", 0, slot, buffer)

\* vkutil::update_*_descriptor_sets: a descriptor now refers to slot `slot`
\* of a buffer ring, or to an image.
UpdateDescriptorSet(what, slot) ==
    Cmd("UpdateDescriptorSet", what, "", "", 0, slot, 0)

CopyBufferToImage(from, slot, image) ==
    Cmd("CopyBufferToImage", image, from, "", 0, slot, 0)

\* vkCmdBlitImage from mip level srcLevel, of srcSize texels, to mip level
\* dstLevel, of dstSize texels.
BlitImage(image, srcLevel, dstLevel, srcSize, dstSize) ==
    [op |-> "BlitImage", obj |-> image, a |-> "", b |-> "", i |-> srcLevel,
     j |-> dstLevel, k |-> 0, first |-> 0, srcSize |-> srcSize,
     dstSize |-> dstSize]

\* vkCmdClearColorImage of the image, in layout TRANSFER_DST_OPTIMAL, to a
\* clear value (field j).
ClearColorImage(image, clearValue) ==
    Cmd("ClearColorImage", image, "TRANSFER_DST", "", 0, clearValue, 0)

\* vkCmdPipelineBarrier with the color-attachment-write to
\* input-attachment-read VkMemoryBarrier.
PipelineBarrier ==
    Cmd("PipelineBarrier", "colorAttachmentWrite>inputAttachmentRead",
        "", "", 0, 0, 0)

\* vkCmdDraw / vkCmdDrawIndexed.
Draw(what, batchIdx, count) == Cmd("Draw", what, "", "", batchIdx, count, 0)

\* A failed assert(): a debug build stops here, a release build goes on.
AssertionFailure(what) == Cmd("AssertionFailure", what, "", "", 0, 0, 0)

(***************************************************************************)
(* Descriptor-set pools. The operators below work on a record s, the state *)
(* of a flush in progress:                                                 *)
(*   cmds      the calls made so far                                       *)
(*   pool      the DescriptorSetPool the flush holds (descriptorSetPool)   *)
(*   lastSet   the descriptor set allocated last                           *)
(*   poolPool  m_descriptorSetPoolPool                                     *)
(*   pools     descriptorSetPools                                          *)
(*   tex       imageTextures                                               *)
(*   allocs    descriptorSetAllocs                                         *)
(*   target    renderTarget                                                *)
(*   needsBarrierBeforeNextDraw, imageTextureUpdateCount  flush()'s locals *)
(***************************************************************************)
Emit(s, c) == [s EXCEPT !.cmds = Append(@, c)]

EmitAll(s, cs) == [s EXCEPT !.cmds = @ \o cs]

\* Then(e, Step): the state that step Step of a flush leaves when it starts
\* in state e (e is evaluated once).
Then(e, Step(_)) == CHOOSE r \in {Step(x) : x \in {e}} : TRUE

\* DescriptorSetPool's constructor, in make_rcp. alive: the VkDescriptorPool
\* exists; resets counts the vkResetDescriptorPool calls on it; refCnt is the
\* reference count, 1 for the rcp that make_rcp returns.
DescriptorSetPool == [alive |-> TRUE, resets |-> 0, refCnt |-> 1]

\* vkutil::ZombieResource<T>(resource, lastFrameUsed): a released resource
\* may be in use by the command buffers of the frame that released it, which
\* are done once prepareToMapBuffers comes back to that frame's ring slot.
ZombieResource(resource, lastFrameUsed) ==
    [resource |-> resource, expirationFrameIdx |-> lastFrameUsed + kBufferRingSize]

\* A VkDescriptorSetLayout, by the number of descriptors of each type that
\* its bindings declare.
DescriptorSetLayout(uniformBuffers, dynamicUniformBuffers, sampledImages, storageBuffers, inputAttachments, storageImages) ==
    [UNIFORM_BUFFER |-> uniformBuffers,
     UNIFORM_BUFFER_DYNAMIC |-> dynamicUniformBuffers,
     SAMPLED_IMAGE |-> sampledImages,
     STORAGE_BUFFER |-> storageBuffers,
     INPUT_ATTACHMENT |-> inputAttachments,
     STORAGE_IMAGE |-> storageImages]

\* ColorRampPipeline::descriptorSetLayout: the flush uniforms.
colorRampDescriptorSetLayout == DescriptorSetLayout(1, 0, 0, 0, 0, 0)

\* TessellatePipeline::descriptorSetLayout: the path and contour buffers and
\* the flush uniforms.
tessellateDescriptorSetLayout == DescriptorSetLayout(1, 0, 0, 2, 0, 0)

\* DrawPipelineLayout::perFlushLayout: the tessellation and gradient
\* textures, the path, paint, paint-aux and contour buffers, the flush
\* uniforms and the image-draw uniforms.
perFlushLayout == DescriptorSetLayout(1, 1, 2, 4, 0, 0)

\* DrawPipelineLayout::perDrawLayout: the image texture.
perDrawLayout == DescriptorSetLayout(0, 0, 1, 0, 0, 0)

\* DrawPipelineLayout::plsLayout: the four PLS planes, input attachments
\* but for the coverage plane of atomics, a storage image.
plsLayout(interlockMode) ==
    IF interlockMode = "atomics"
    THEN DescriptorSetLayout(0, 0, 0, 0, 3, 1)
    ELSE DescriptorSetLayout(0, 0, 0, 0, 4, 0)

\* The descriptorPoolSizes and maxSets of a DescriptorSetPool.
kMaxUniformUpdates == 3

kMaxDynamicUniformUpdates == 1

kMaxSampledImageUpdates == 2 + kMaxImageTextureUpdates

kMaxStorageBufferUpdates == 6

kMaxDescriptorSets == 3 + kMaxImageTextureUpdates

descriptorPoolSizes ==
    DescriptorSetLayout(kMaxUniformUpdates, kMaxDynamicUniformUpdates,
                        kMaxSampledImageUpdates, kMaxStorageBufferUpdates, 4, 1)

\* DescriptorSetPool::allocateDescriptorSet(layout).
allocateDescriptorSet(s, layout) ==
    [s EXCEPT !.lastSet = [pool |-> s.pool, gen |-> s.pools[s.pool].resets],
              !.setsAllocated =
                  Append(@, [pool |-> s.pool, gen |-> s.pools[s.pool].resets,
                             layout |-> layout])]

\* A descriptor set is valid while its pool exists and has not been reset
\* since the set was allocated.
IsValidDescriptorSet(s, set) ==
    /\ set.pool # 0
    /\ s.pools[set.pool].alive
    /\ s.pools[set.pool].resets = set.gen

\* DescriptorSetPool::freeDescriptorSets: vkResetDescriptorPool.
freeDescriptorSets(pool) == [pool EXCEPT !.resets = @ + 1]

\* An onRefCntReachedZero that always keeps the pool.
onRefCntReachedZeroUnbounded(s, p) ==
    [s EXCEPT !.poolPool = Append(@, ZombieResource(p, m_currentFrameIdx))]

\* DescriptorSetPool::onRefCntReachedZero for pool p. plsImplVulkan() is not
\* null while the context exists.
onRefCntReachedZero(s, p) ==
    IF ~Destroyed /\ Len(s.poolPool) < kMaxDescriptorSetPoolsInPool
    THEN [s EXCEPT !.poolPool = Append(@, ZombieResource(p, m_currentFrameIdx))]
    ELSE [s EXCEPT !.pools[p].alive = FALSE]

\* rcp<DescriptorSetPool>'s destructor: the reference is dropped, and a count
\* of zero calls onRefCntReachedZero.
unref(s, p) ==
    LET dropped == [s EXCEPT !.pools[p].refCnt = @ - 1]
    IN  IF dropped.pools[p].refCnt = 0 THEN onRefCntReachedZero(dropped, p) ELSE dropped

\* The descriptor sets of pool p that the engine holds and that are live:
\* allocated from p since its last reset.
LiveDescriptorSets(s, p) ==
    {set \in {s.lastSet, s.perFlushDescriptorSet}
              \cup {s.tex[t].m_imageTextureDescriptorSet : t \in DOMAIN s.tex} :
        set.pool = p /\ set.gen = s.pools[p].resets}

\* What a makeDescriptorSetPool call returned: the pool, its reference count
\* and its live descriptor sets on return, and what the call found at the
\* front of m_descriptorSetPoolPool.
Returned(s, before) ==
    [s EXCEPT !.made =
        Append(@, [pool |-> s.pool, refCnt |-> s.pools[s.pool].refCnt,
                   descriptorSets |-> LiveDescriptorSets(s, s.pool),
                   resets |-> s.pools[s.pool].resets,
                   poolPool |-> before.poolPool,
                   pools |-> before.pools,
                   m_currentFrameIdx |-> m_currentFrameIdx])]

\* A makeDescriptorSetPool that hands a released pool out as it is.
makeDescriptorSetPoolWithoutReset(s) ==
    IF /\ s.poolPool # <<>>
       /\ Head(s.poolPool).expirationFrameIdx <= m_currentFrameIdx
    THEN LET p == Head(s.poolPool).resource
         IN  Returned([s EXCEPT !.pool = p,
                                !.pools[p].refCnt = @ + 1,
                                !.poolPool = Tail(@)], s)
    ELSE Returned([s EXCEPT !.pool = Len(s.pools) + 1,
                            !.pools = Append(@, DescriptorSetPool)], s)

\* PLSRenderContextVulkanImpl::makeDescriptorSetPool: s.pool becomes the pool
\* it returns. ref_rcp adds a reference to the pool that the list released.
makeDescriptorSetPool(s) ==
    IF /\ s.poolPool # <<>>
       /\ Head(s.poolPool).expirationFrameIdx <= m_currentFrameIdx
    THEN LET p == Head(s.poolPool).resource
         IN  Returned([s EXCEPT !.pool = p,
                                !.pools[p] = freeDescriptorSets([@ EXCEPT !.refCnt = @ + 1]),
                                !.poolPool = Tail(@)], s)
    ELSE Returned([s EXCEPT !.pool = Len(s.pools) + 1,
                            !.pools = Append(@, DescriptorSetPool)], s)

(***************************************************************************)
(* PLSTextureVulkanImpl::synchronize for texture t (0: the null image      *)
(* texture): upload, mipmap chain, transition to shader-read; the staging  *)
(* buffer is released.                                                     *)
(***************************************************************************)
TextureName(t) ==
    CASE t = 0 -> "nullImageTexture"
      [] t = 1 -> "imageTexture1"
      [] t = 2 -> "imageTexture2"

\* Half the size without the floor of one texel.
HalfSizeUnclamped(srcSize) == <<srcSize[1] \div 2, srcSize[2] \div 2>>

\* dstSize = simd::max(srcSize >> 1, int2(1)).
HalfSize(srcSize) ==
    <<IF srcSize[1] \div 2 > 1 THEN srcSize[1] \div 2 ELSE 1,
      IF srcSize[2] \div 2 > 1 THEN srcSize[2] \div 2 ELSE 1>>

\* The mipmap loop from `level` on, whose source level has srcSize texels.
RECURSIVE MipmapBlits(_, _, _, _)
MipmapBlits(image, level, mipLevels, srcSize) ==
    IF level >= mipLevels
    THEN <<>>
    ELSE <<ImageBarrier(image, "TRANSFER_DST", "TRANSFER_SRC", level - 1, 1),
           BlitImage(image, level - 1, level, srcSize, HalfSize(srcSize))>>
         \o MipmapBlits(image, level + 1, mipLevels, HalfSize(srcSize))

\* A synchronize that does not release m_imageUploadBuffer.
synchronizeKeepsUploadBuffer(s, t) ==
    LET image == TextureName(t)
        mipLevels == s.tex[t].mipLevels
        upload ==
            <<ImageBarrier(image, "UNDEFINED", "TRANSFER_DST", 0, mipLevels),
              CopyBufferToImage("imageUploadBuffer", 0, image)>>
        mipmaps ==
            IF mipLevels > 1
            THEN MipmapBlits(image, 1, mipLevels,
                             <<s.tex[t].width, s.tex[t].height>>)
                 \o <<ImageBarrier(image, "TRANSFER_SRC", "SHADER_READ_ONLY",
                                   0, mipLevels - 1)>>
            ELSE <<>>
        last ==
            <<ImageBarrier(image, "TRANSFER_DST", "SHADER_READ_ONLY",
                           mipLevels - 1, 1)>>
    IN  EmitAll(s, upload \o mipmaps \o last)

synchronize(s, t) ==
    LET image == TextureName(t)
        mipLevels == s.tex[t].mipLevels
        upload ==
            <<ImageBarrier(image, "UNDEFINED", "TRANSFER_DST", 0, mipLevels),
              CopyBufferToImage("imageUploadBuffer", 0, image)>>
        mipmaps ==
            IF mipLevels > 1
            THEN MipmapBlits(image, 1, mipLevels,
                             <<s.tex[t].width, s.tex[t].height>>)
                 \o <<ImageBarrier(image, "TRANSFER_SRC", "SHADER_READ_ONLY",
                                   0, mipLevels - 1)>>
            ELSE <<>>
        last ==
            <<ImageBarrier(image, "TRANSFER_DST", "SHADER_READ_ONLY",
                           mipLevels - 1, 1)>>
    IN  [EmitAll(s, upload \o mipmaps \o last) EXCEPT
            !.tex[t].hasUpdates = FALSE]

\* flush(): "Apply pending texture updates" for the batches from index n on.
RECURSIVE SynchronizeDrawList(_, _, _)
SynchronizeDrawList(s, drawList, n) ==
    IF n > Len(drawList)
    THEN s
    ELSE LET t == drawList[n].imageTexture
             Rest(x) == SynchronizeDrawList(x, drawList, n + 1)
         IN  Then(IF t # 0 /\ s.tex[t].hasUpdates THEN synchronize(s, t) ELSE s,
                  Rest)

(***************************************************************************)
(* PLSRenderTargetVulkan::synchronize: make the auxiliary images that the  *)
(* interlock mode needs and that do not exist yet.                         *)
(***************************************************************************)
MakeAuxTexture(s, field, image) ==
    [Emit(s, ImageBarrier(image, "UNDEFINED", "GENERAL", 0, 1)) EXCEPT
        !.target[field] = TRUE]

\* A synchronize that does not test the image for nullptr.
MakeAuxTextureAgain(s, needed, field, image) ==
    IF needed THEN MakeAuxTexture(s, field, image) ELSE s

MakeAuxTextureIf(s, needed, field, image) ==
    IF needed /\ ~s.target[field] THEN MakeAuxTexture(s, field, image) ELSE s

RenderTargetSynchronize(s, interlockMode) ==
    LET Coverage(x) ==
            MakeAuxTextureIf(x, interlockMode = "rasterOrdering",
                             "coverage", "coverageTexture")
        Clip(x) == MakeAuxTextureIf(x, TRUE, "clip", "clipTexture")
        ScratchColor(x) ==
            MakeAuxTextureIf(x, interlockMode = "rasterOrdering",
                             "scratchColor", "scratchColorTexture")
        CoverageAtomic(x) ==
            MakeAuxTextureIf(x, interlockMode = "atomics",
                             "coverageAtomic", "coverageAtomicTexture")
    IN  Then(Then(Then(Coverage(s), Clip), ScratchColor), CoverageAtomic)

\* flush() reads the image view of an auxiliary image of the render target,
\* for a framebuffer attachment or for a descriptor. k is 1 when the view
\* exists and 0 when the rcp that flush() dereferences is null.
ImageViewUse(s, op, field, view, plane) ==
    Emit(s, Cmd(op, view, "", "", plane, 0, IF s.target[field] THEN 1 ELSE 0))

\* "VkImageView imageViews[]" and m_allocator->makeFramebuffer: the
\* attachments of the draw pass's framebuffer after the target's own, by
\* plane index. In atomics mode m_clipTextureView stands in for the coverage
\* plane and the scratch plane is VK_NULL_HANDLE.
MakeFramebuffer(s, d) ==
    LET Clip(x) ==
            ImageViewUse(x, "FramebufferAttachment", "clip", "clipTextureView", 2)
        ScratchColor(x) ==
            ImageViewUse(x, "FramebufferAttachment", "scratchColor",
                         "scratchColorTextureView", 3)
    IN  IF d.interlockMode = "atomics"
        THEN Then(ImageViewUse(s, "FramebufferAttachment", "clip",
                               "clipTextureView", 1), Clip)
        ELSE Then(Then(ImageViewUse(s, "FramebufferAttachment", "coverage",
                                    "coverageTextureView", 1), Clip), ScratchColor)

\* "Update the PLS input attachment descriptor sets", after the target's own
\* view: the coverage, clip and scratch-color planes.
UpdateInputAttachments(s, d) ==
    LET Clip(x) ==
            ImageViewUse(x, "UpdateInputAttachment", "clip", "clipTextureView", 2)
        ScratchColor(x) ==
            ImageViewUse(x, "UpdateInputAttachment", "scratchColor",
                         "scratchColorTextureView", 3)
    IN  IF d.interlockMode = "atomics"
        THEN Then(ImageViewUse(s, "UpdateInputAttachment", "coverageAtomic",
                               "coverageAtomicTextureView", 1), Clip)
        ELSE IF d.interlockMode = "rasterOrdering"
        THEN Then(Then(ImageViewUse(s, "UpdateInputAttachment", "coverage",
                                    "coverageTextureView", 1), Clip), ScratchColor)
        ELSE Then(ImageViewUse(s, "UpdateInputAttachment", "coverage",
                               "coverageTextureView", 1), Clip)

(***************************************************************************)
(* flush(), pass by pass.                                                  *)
(***************************************************************************)

\* A gradient step that begins the color-ramp render pass whatever
\* desc.complexGradSpanCount is.
GradientPassOfZeroSpans(s, d) ==
    LET s1 == Emit(s, ImageBarrier("gradientTexture", "UNDEFINED",
                                   "COLOR_ATTACHMENT", 0, 1))
        ColorRamp(a) ==
                   EmitAll(a,
                     <<BeginRenderPass("colorRamp"),
                       BindPipeline("colorRamp"),
                       SetViewport,
                       SetScissor,
                       BindVertexBuffers("gradSpanBufferRing", 0, m_bufferRingIdx, 0),
                       UpdateDescriptorSet("flushUniformBufferRing", m_bufferRingIdx),
                       Cmd("BindDescriptorSets", "colorRamp", "", "",
                           a.lastSet.pool, a.lastSet.gen,
                           IF IsValidDescriptorSet(a, a.lastSet) THEN 1 ELSE 0),
                       Draw("complexGradSpans", 0, d.complexGradSpanCount),
                       EndRenderPass("colorRamp")>>)
        s2 == Then(allocateDescriptorSet(s1, colorRampDescriptorSetLayout), ColorRamp)
        s3 == Emit(s2, ImageBarrier("gradientTexture", "COLOR_ATTACHMENT",
                                    "TRANSFER_DST", 0, 1))
        s4 == IF d.simpleGradTexelsHeight > 0
              THEN Emit(s3, CopyBufferToImage("simpleColorRampsBufferRing",
                                              m_bufferRingIdx, "gradientTexture"))
              ELSE s3
    IN  Emit(s4, ImageBarrier("gradientTexture", "TRANSFER_DST",
                              "SHADER_READ_ONLY", 0, 1))

\* "Render the complex color ramps to the gradient texture" and "Copy the
\* simple color ramps to the gradient texture".
GradientPass(s, d) ==
    LET s1 == Emit(s, ImageBarrier("gradientTexture", "UNDEFINED",
                                   "COLOR_ATTACHMENT", 0, 1))
        ColorRamp(a) ==
                   EmitAll(a,
                     <<BeginRenderPass("colorRamp"),
                       BindPipeline("colorRamp"),
                       SetViewport,
                       SetScissor,
                       BindVertexBuffers("gradSpanBufferRing", 0, m_bufferRingIdx, 0),
                       UpdateDescriptorSet("flushUniformBufferRing", m_bufferRingIdx),
                       Cmd("BindDescriptorSets", "colorRamp", "", "",
                           a.lastSet.pool, a.lastSet.gen,
                           IF IsValidDescriptorSet(a, a.lastSet) THEN 1 ELSE 0),
                       Draw("complexGradSpans", 0, d.complexGradSpanCount),
                       EndRenderPass("colorRamp")>>)
        s2 == IF d.complexGradSpanCount > 0
              THEN Then(allocateDescriptorSet(s1, colorRampDescriptorSetLayout), ColorRamp)
              ELSE s1
        s3 == Emit(s2, ImageBarrier("gradientTexture", "COLOR_ATTACHMENT",
                                    "TRANSFER_DST", 0, 1))
        s4 == IF d.simpleGradTexelsHeight > 0
              THEN Emit(s3, CopyBufferToImage("simpleColorRampsBufferRing",
                                              m_bufferRingIdx, "gradientTexture"))
              ELSE s3
    IN  Emit(s4, ImageBarrier("gradientTexture", "TRANSFER_DST",
                              "SHADER_READ_ONLY", 0, 1))

\* A tessellation step whose closing barrier is recorded with the render
\* pass only.
TessellationPassBarrierWithPass(s, d) ==
    LET s1 == Emit(s, ImageBarrier("tessVertexTexture", "UNDEFINED",
                                   "COLOR_ATTACHMENT", 0, 1))
        Tessellate(a) ==
                   EmitAll(a,
                     <<BeginRenderPass("tessellate"),
                       BindPipeline("tessellate"),
                       SetViewport,
                       SetScissor,
                       BindVertexBuffers("tessSpanBufferRing", 0, m_bufferRingIdx, 0),
                       BindIndexBuffer("tessSpanIndexBuffer", 0, 0),
                       UpdateDescriptorSet("pathBufferRing", m_bufferRingIdx),
                       UpdateDescriptorSet("contourBufferRing", m_bufferRingIdx),
                       UpdateDescriptorSet("flushUniformBufferRing", m_bufferRingIdx),
                       Cmd("BindDescriptorSets", "tessellate", "", "",
                           a.lastSet.pool, a.lastSet.gen,
                           IF IsValidDescriptorSet(a, a.lastSet) THEN 1 ELSE 0),
                       Draw("tessSpans", 0, d.tessVertexSpanCount),
                       EndRenderPass("tessellate"),
                       ImageBarrier("tessVertexTexture", "COLOR_ATTACHMENT",
                                    "SHADER_READ_ONLY", 0, 1)>>)
    IN  IF d.tessVertexSpanCount > 0
        THEN Then(allocateDescriptorSet(s1, tessellateDescriptorSetLayout), Tessellate)
        ELSE s1

\* "Tessellate all curves into vertices in the tessellation texture".
TessellationPass(s, d) ==
    LET s1 == Emit(s, ImageBarrier("tessVertexTexture", "UNDEFINED",
                                   "COLOR_ATTACHMENT", 0, 1))
        Tessellate(a) ==
                   EmitAll(a,
                     <<BeginRenderPass("tessellate"),
                       BindPipeline("tessellate"),
                       SetViewport,
                       SetScissor,
                       BindVertexBuffers("tessSpanBufferRing", 0, m_bufferRingIdx, 0),
                       BindIndexBuffer("tessSpanIndexBuffer", 0, 0),
                       UpdateDescriptorSet("pathBufferRing", m_bufferRingIdx),
                       UpdateDescriptorSet("contourBufferRing", m_bufferRingIdx),
                       UpdateDescriptorSet("flushUniformBufferRing", m_bufferRingIdx),
                       Cmd("BindDescriptorSets", "tessellate", "", "",
                           a.lastSet.pool, a.lastSet.gen,
                           IF IsValidDescriptorSet(a, a.lastSet) THEN 1 ELSE 0),
                       Draw("tessSpans", 0, d.tessVertexSpanCount),
                       EndRenderPass("tessellate")>>)
        s2 == IF d.tessVertexSpanCount > 0
              THEN Then(allocateDescriptorSet(s1, tessellateDescriptorSetLayout), Tessellate)
              ELSE s1
    IN  Emit(s2, ImageBarrier("tessVertexTexture", "COLOR_ATTACHMENT",
                              "SHADER_READ_ONLY", 0, 1))

\* "Apply pending texture updates": the null image texture, then the draw
\* list's image textures.
\* A flush that applies the pending update of the null image texture only.
ImageTextureSyncOfNullOnly(s, d) ==
    IF s.tex[0].hasUpdates THEN synchronize(s, 0) ELSE s

ImageTextureSync(s, d) ==
    LET DrawList(x) == SynchronizeDrawList(x, d.drawList, 1)
    IN  Then(IF s.tex[0].hasUpdates THEN synchronize(s, 0) ELSE s, DrawList)

\* "VkClearValue clearValues[3]", by plane index: the clear color (not
\* modelled), desc.coverageClearValue and zero for the clip plane.
COVERAGE_PLANE_IDX == 1

clearValues(d) == [plane \in 0 .. 2 |-> IF plane = COVERAGE_PLANE_IDX THEN d.coverageClearValue ELSE 0]

\* A setup that leaves the atomic coverage image in the layout of the clear.
AtomicsSetupLeavesTransferDst(s, d) ==
    IF d.interlockMode = "atomics"
    THEN EmitAll(
           [s EXCEPT !.needsBarrierBeforeNextDraw = (d.colorLoadAction = "clear")],
           <<ImageBarrier("coverageAtomicTexture", "GENERAL", "TRANSFER_DST", 0, 1),
             ClearColorImage("coverageAtomicTexture", clearValues(d)[COVERAGE_PLANE_IDX])>>)
    ELSE s

\* A setup that leaves needsBarrierBeforeNextDraw false whatever the load
\* action is.
AtomicsSetupWithoutClearBarrier(s, d) ==
    IF d.interlockMode = "atomics"
    THEN EmitAll(
           [s EXCEPT !.needsBarrierBeforeNextDraw = FALSE],
           <<ImageBarrier("coverageAtomicTexture", "GENERAL", "TRANSFER_DST", 0, 1),
             ClearColorImage("coverageAtomicTexture", clearValues(d)[COVERAGE_PLANE_IDX]),
             ImageBarrier("coverageAtomicTexture", "TRANSFER_DST", "GENERAL", 0, 1)>>)
    ELSE s

\* The atomics-only setup before the main render pass: whether the first
\* draw needs a barrier (the advanced-blend test is compiled out with #if 0),
\* and the clear of the atomic coverage image.
AtomicsSetup(s, d) ==
    IF d.interlockMode = "atomics"
    THEN EmitAll(
           [s EXCEPT !.needsBarrierBeforeNextDraw = (d.colorLoadAction = "clear")],
           <<ImageBarrier("coverageAtomicTexture", "GENERAL", "TRANSFER_DST", 0, 1),
             ClearColorImage("coverageAtomicTexture", clearValues(d)[COVERAGE_PLANE_IDX]),
             ImageBarrier("coverageAtomicTexture", "TRANSFER_DST", "GENERAL", 0, 1)>>)
    ELSE s

\* vkCmdBeginRenderPass of the draw pass, "Update the per-flush descriptor
\* sets", "Update the PLS input attachment descriptor sets" and "Bind the
\* descriptor sets for this draw pass".
BeginDrawPass(s, d) ==
    LET s1 == EmitAll(s, <<BeginRenderPass("draw"), SetViewport, SetScissor>>)
        PerFlush(perFlush) ==
          LET s2 == EmitAll(perFlush,
                <<UpdateDescriptorSet("tessVertexTexture", 0),
                  UpdateDescriptorSet("gradientTexture", 0),
                  UpdateDescriptorSet("pathBufferRing", m_bufferRingIdx),
                  UpdateDescriptorSet("paintBufferRing", m_bufferRingIdx),
                  UpdateDescriptorSet("paintAuxBufferRing", m_bufferRingIdx),
                  UpdateDescriptorSet("contourBufferRing", m_bufferRingIdx),
                  UpdateDescriptorSet("flushUniformBufferRing", m_bufferRingIdx),
                  UpdateDescriptorSet("imageDrawUniformBufferRing", m_bufferRingIdx)>>)
              InputAttachments(x) == UpdateInputAttachments(x, d)
              Bind(pls) ==
                [Emit(pls,
                      Cmd("BindDescriptorSets", "perFlush", "", "",
                          perFlush.lastSet.pool, perFlush.lastSet.gen,
                          IF IsValidDescriptorSet(pls, perFlush.lastSet)
                          THEN 1 ELSE 0))
                    EXCEPT !.perFlushDescriptorSet = perFlush.lastSet]
          IN  Then(Then(allocateDescriptorSet(s2, plsLayout(d.interlockMode)),
                        InputAttachments), Bind)
    IN  Then(allocateDescriptorSet(s1, perFlushLayout), PerFlush)

\* "Update the imageTexture binding and the dynamic offset into the imageDraw
\* uniform buffer" for a batch that has an image texture.
SwapDescriptorSetPool(s) ==
    LET Release(made) ==
            [unref(made, s.pool) EXCEPT !.imageTextureUpdateCount = 0]
    IN  Then(makeDescriptorSetPool(s), Release)

\* An update that forgets "imageTexture->m_descriptorSetFrameIdx =
\* m_currentFrameIdx".
UpdateWithoutFrameIdx(s, t) ==
    LET Update(a) ==
            [Emit(a, UpdateDescriptorSet(TextureName(t), 0)) EXCEPT
                !.tex[t].m_imageTextureDescriptorSet = a.lastSet,
                !.imageTextureUpdateCount = @ + 1,
                !.allocs[t] = @ + 1]
        Allocate(x) == Then(allocateDescriptorSet(x, perDrawLayout), Update)
    IN  Then(IF s.imageTextureUpdateCount >= kMaxImageTextureUpdates
             THEN SwapDescriptorSetPool(s)
             ELSE s,
             Allocate)

UpdateImageTextureDescriptorSet(s, t) ==
    LET Update(a) ==
            [Emit(a, UpdateDescriptorSet(TextureName(t), 0)) EXCEPT
                !.tex[t].m_imageTextureDescriptorSet = a.lastSet,
                !.tex[t].m_descriptorSetFrameIdx = m_currentFrameIdx,
                !.imageTextureUpdateCount = @ + 1,
                !.allocs[t] = @ + 1]
        Allocate(x) == Then(allocateDescriptorSet(x, perDrawLayout), Update)
    IN  Then(IF s.imageTextureUpdateCount >= kMaxImageTextureUpdates
             THEN SwapDescriptorSetPool(s)
             ELSE s,
             Allocate)

BindImageTexture(s, t) ==
    LET Bind(x) ==
            LET set == x.tex[t].m_imageTextureDescriptorSet
            IN  Emit(x, Cmd("BindDescriptorSets", "imageTexture", TextureName(t), "",
                            set.pool, set.gen,
                            IF /\ IsValidDescriptorSet(x, set)
                               /\ IsValidDescriptorSet(x, x.perFlushDescriptorSet)
                            THEN 1 ELSE 0))
    IN  Then(IF s.tex[t].m_descriptorSetFrameIdx # m_currentFrameIdx
             THEN UpdateImageTextureDescriptorSet(s, t)
             ELSE s,
             Bind)

\* A resolve draw of three vertices: a triangle, not the full-screen strip.
AtomicResolveDrawOfATriangle(n) == [Draw("plsAtomicResolve", n, 3) EXCEPT !.k = 1]

\* case DrawType::plsAtomicResolve: vkCmdDraw(commandBuffer, 4, 1, 0, 0).
AtomicResolveDraw(n) == [Draw("plsAtomicResolve", n, 4) EXCEPT !.k = 1]

\* vkCmdDrawIndexed(commandBuffer, indexCount, instanceCount, firstIndex, 0, 0).
DrawIndexed(what, batchIdx, indexCount, instanceCount, firstIndex) ==
    [Draw(what, batchIdx, indexCount) EXCEPT
        !.k = instanceCount, !.first = firstIndex]

\* assert(m_bufferRingIdx >= 0) of frontVkBuffer and frontVkBufferAddressOf.
AssertMapped(b) ==
    IF renderBuffers[b].m_bufferRingIdx >= 0
    THEN <<>>
    ELSE <<AssertionFailure("m_bufferRingIdx >= 0")>>

\* The argument that frontVkBuffer and frontVkBufferAddressOf hand to
\* m_bufferRing.vkBufferAt: the buffer's own ring index, -1 before any map.
frontVkBuffer(b) == renderBuffers[b].m_bufferRingIdx

\* An image-mesh case that binds the uv buffer at binding 0 and the vertex
\* buffer at binding 1.
ImageMeshCommandsUvFirst(batch, n) ==
    AssertMapped(batch.uvBuffer)
    \o <<BindVertexBuffers("renderBuffer", 0, frontVkBuffer(batch.uvBuffer),
                           batch.uvBuffer)>>
    \o AssertMapped(batch.vertexBuffer)
    \o <<BindVertexBuffers("renderBuffer", 1, frontVkBuffer(batch.vertexBuffer),
                           batch.vertexBuffer)>>
    \o AssertMapped(batch.indexBuffer)
    \o <<BindIndexBuffer("renderBuffer", frontVkBuffer(batch.indexBuffer),
                         batch.indexBuffer),
         DrawIndexed("imageMesh", n, batch.elementCount, 1, batch.baseElement)>>

\* case DrawType::imageMesh of the draw loop.
ImageMeshCommands(batch, n) ==
    AssertMapped(batch.vertexBuffer)
    \o <<BindVertexBuffers("renderBuffer", 0, frontVkBuffer(batch.vertexBuffer),
                           batch.vertexBuffer)>>
    \o AssertMapped(batch.uvBuffer)
    \o <<BindVertexBuffers("renderBuffer", 1, frontVkBuffer(batch.uvBuffer),
                           batch.uvBuffer)>>
    \o AssertMapped(batch.indexBuffer)
    \o <<BindIndexBuffer("renderBuffer", frontVkBuffer(batch.indexBuffer),
                         batch.indexBuffer),
         DrawIndexed("imageMesh", n, batch.elementCount, 1, batch.baseElement)>>

\* The switch (drawType) of the draw loop, for batch n.
DrawCommands(d, n) ==
    LET batch == d.drawList[n]
        drawType == batch.drawType
        NotAtomics ==
            IF d.interlockMode = "atomics"
            THEN <<>>
            ELSE <<AssertionFailure("interlockMode == atomics")>>
    IN  CASE drawType \in {"midpointFanPatches", "outerCurvePatches"} ->
                <<BindVertexBuffers("pathPatchVertexBuffer", 0, 0, 0),
                  BindIndexBuffer("pathPatchIndexBuffer", 0, 0),
                  Draw(drawType, n, batch.elementCount)>>
          [] drawType = "interiorTriangulation" ->
                <<BindVertexBuffers("triangleBufferRing", 0, m_bufferRingIdx, 0),
                  Draw(drawType, n, batch.elementCount)>>
          [] drawType = "imageRect" ->
                NotAtomics
                \o <<BindVertexBuffers("imageRectVertexBuffer", 0, 0, 0),
                     BindIndexBuffer("imageRectIndexBuffer", 0, 0),
                     Draw(drawType, n, 1)>>
          [] drawType = "imageMesh" -> ImageMeshCommands(batch, n)
          [] drawType = "plsAtomicResolve" ->
                NotAtomics \o <<AtomicResolveDraw(n)>>

\* The memory barrier a draw records ahead of itself when the flag is set.
BarrierBeforeDraw(s, d) ==
    IF s.needsBarrierBeforeNextDraw
    THEN EmitAll(s,
           (IF d.interlockMode = "atomics"
            THEN <<>>
            ELSE <<AssertionFailure("interlockMode == atomics")>>)
           \o <<PipelineBarrier>>)
    ELSE s

\* The flag without its interlock-mode test.
NeedsBarrierAfterInAnyMode(d, batch) == batch.needsBarrier

\* The flag a batch leaves behind for the next draw.
NeedsBarrierAfter(d, batch) ==
    d.interlockMode = "atomics" /\ batch.needsBarrier

\* An iteration that updates the flag for a batch it skips too.
ExecuteBatchSkipUpdatesFlag(s, d, n) ==
    LET batch == d.drawList[n]
        Pipeline(x) == Emit(x, [BindPipeline(batch.drawType) EXCEPT !.i = n])
        Barrier(x) == BarrierBeforeDraw(x, d)
        DrawIt(x) ==
            [EmitAll(x, DrawCommands(d, n)) EXCEPT
                !.needsBarrierBeforeNextDraw = NeedsBarrierAfter(d, batch)]
    IN  IF batch.elementCount = 0
        THEN [s EXCEPT !.needsBarrierBeforeNextDraw = NeedsBarrierAfter(d, batch)]
        ELSE Then(Then(Then(IF batch.imageTexture # 0
                            THEN BindImageTexture(s, batch.imageTexture)
                            ELSE s,
                            Pipeline),
                       Barrier),
                  DrawIt)

\* An iteration without the test of batch.elementCount.
ExecuteBatchOfAnyElementCount(s, d, n) ==
    LET batch == d.drawList[n]
        Pipeline(x) == Emit(x, [BindPipeline(batch.drawType) EXCEPT !.i = n])
        Barrier(x) == BarrierBeforeDraw(x, d)
        DrawIt(x) ==
            [EmitAll(x, DrawCommands(d, n)) EXCEPT
                !.needsBarrierBeforeNextDraw = NeedsBarrierAfter(d, batch)]
    IN  Then(Then(Then(IF batch.imageTexture # 0
                       THEN BindImageTexture(s, batch.imageTexture)
                       ELSE s,
                       Pipeline),
                  Barrier),
             DrawIt)

\* One iteration of "Execute the DrawList": a batch of no elements is skipped.
ExecuteBatch(s, d, n) ==
    LET batch == d.drawList[n]
        Pipeline(x) == Emit(x, [BindPipeline(batch.drawType) EXCEPT !.i = n])
        Barrier(x) == BarrierBeforeDraw(x, d)
        DrawIt(x) ==
            [EmitAll(x, DrawCommands(d, n)) EXCEPT
                !.needsBarrierBeforeNextDraw = NeedsBarrierAfter(d, batch)]
    IN  IF batch.elementCount = 0
        THEN s
        ELSE Then(Then(Then(IF batch.imageTexture # 0
                            THEN BindImageTexture(s, batch.imageTexture)
                            ELSE s,
                            Pipeline),
                       Barrier),
                  DrawIt)

RECURSIVE ExecuteDrawList(_, _, _)
ExecuteDrawList(s, d, n) ==
    LET Rest(x) == ExecuteDrawList(x, d, n + 1)
    IN  IF n > Len(d.drawList) THEN s ELSE Then(ExecuteBatch(s, d, n), Rest)

\* The draw pass: begin, bind, the draw list, end.
DrawPass(s, d) ==
    LET List(x) == ExecuteDrawList(x, d, 1)
    IN  Emit(Then(BeginDrawPass(s, d), List), EndRenderPass("draw"))

\* The initial state of a flush in progress.
FlushStart ==
    [cmds |-> <<>>, made |-> <<>>, setsAllocated |-> <<>>,
     pool |-> 0, lastSet |-> NullDescriptorSet,
     perFlushDescriptorSet |-> NullDescriptorSet,
     poolPool |-> m_descriptorSetPoolPool,
     pools |-> descriptorSetPools,
     tex |-> imageTextures,
     allocs |-> descriptorSetAllocs,
     target |-> renderTarget,
     needsBarrierBeforeNextDraw |-> FALSE,
     imageTextureUpdateCount |-> 0]

\* A flush that uploads the image textures before it renders the gradient
\* and tessellation textures.
FlushBodyTexturesFirst(d) ==
    LET Gradient(x) == GradientPass(x, d)
        Tessellation(x) == TessellationPass(x, d)
        Textures_(x) == ImageTextureSync(x, d)
        Framebuffer(x) == MakeFramebuffer(x, d)
        Target(x) == Then(RenderTargetSynchronize(x, d.interlockMode), Framebuffer)
        Atomics(x) == AtomicsSetup(x, d)
        DrawList(x) == DrawPass(x, d)
        Release(x) == unref(x, x.pool)
    IN  Then(Then(Then(Then(Then(Then(Then(makeDescriptorSetPool(FlushStart),
                                           Textures_), Gradient), Tessellation),
                            Target), Atomics), DrawList),
             Release)

\* flush() from makeDescriptorSetPool() to vkCmdEndRenderPass, and then the
\* release of the flush's reference to its DescriptorSetPool.
FlushBody(d) ==
    LET s0 == makeDescriptorSetPool(FlushStart)
        Gradient(x) == GradientPass(x, d)
        Tessellation(x) == TessellationPass(x, d)
        Textures_(x) == ImageTextureSync(x, d)
        Framebuffer(x) == MakeFramebuffer(x, d)
        Target(x) == Then(RenderTargetSynchronize(x, d.interlockMode), Framebuffer)
        Atomics(x) == AtomicsSetup(x, d)
        DrawList(x) == DrawPass(x, d)
        Release(x) == unref(x, x.pool)
    IN  Then(Then(Then(Then(Then(Then(Then(s0, Gradient), Tessellation),
                                  Textures_), Target), Atomics), DrawList),
             Release)

\* The render buffer slots that the image-mesh draws among calls cs read.
MeshReadsOf(cs) ==
    {<<m_currentFrameIdx, cs[n].k, cs[n].j>> :
        n \in {m \in 1 .. Len(cs) : cs[m].obj = "renderBuffer"}}

\* A flush that stores its fence whether or not it is the frame's final one.
AttachFenceOnEveryFlush(d) ==
    /\ m_frameCompletionFences' =
           [m_frameCompletionFences EXCEPT
               ![m_bufferRingIdx] = d.frameCompletionFence]
    /\ fenceSlots' = fenceSlots \cup {<<d.frameCompletionFence, m_bufferRingIdx>>}

\* "if (desc.isFinalFlushOfFrame)": the fence goes to the current ring slot.
AttachFence(d) ==
    IF d.isFinalFlushOfFrame
    THEN /\ m_frameCompletionFences' =
                [m_frameCompletionFences EXCEPT
                    ![m_bufferRingIdx] = d.frameCompletionFence]
         /\ fenceSlots' =
                fenceSlots \cup
                    (IF d.frameCompletionFence = NullFence
                     THEN {}
                     ELSE {<<d.frameCompletionFence, m_bufferRingIdx>>})
    ELSE UNCHANGED <<m_frameCompletionFences, fenceSlots>>

(***************************************************************************)
(* PLSRenderContextVulkanImpl::flush. The calls it records name the        *)
(* pipeline of a batch by the batch's draw type; how the DrawPipeline is   *)
(* keyed and cached is SelectDrawPipeline's.                               *)
(***************************************************************************)
\* A flush without the early return.
IsUnimplementedNever(d) == FALSE

\* "if (desc.interlockMode == pls::InterlockMode::depthStencil) return;"
IsUnimplemented(d) == d.interlockMode = "depthStencil"

flush(d) ==
    /\ flushesThisFrame < MaxFlushesPerFrame
    /\ call' = "flush"
    /\ desc' = d
    /\ flushesThisFrame' = flushesThisFrame + 1
    /\ UNCHANGED <<plsRenderContext, counterVars, subdivision, gl, m_resourcePurgatory, deletedResources, m_drawPipelines, drawPipeline,
                   m_drawShaders, m_renderPasses>>
    /\ IF IsUnimplemented(d)
       THEN /\ cmds' = <<>>
            /\ descriptorSetPoolsMade' = <<>>
            /\ descriptorSetsAllocated' = <<>>
            /\ UNCHANGED <<engineVars, constructed>>
       ELSE \E s \in {FlushBody(d)} :
                /\ cmds' = s.cmds
                /\ descriptorSetPoolsMade' = s.made
                /\ descriptorSetsAllocated' = s.setsAllocated
                /\ m_descriptorSetPoolPool' = s.poolPool
                /\ descriptorSetPools' = s.pools
                /\ imageTextures' = s.tex
                /\ descriptorSetAllocs' = s.allocs
                /\ renderTarget' = s.target
                /\ \E c \in {DrawPipelineLayoutAt(PipelineCaches, d.interlockMode)} :
                       /\ m_drawPipelineLayouts' = c.m_drawPipelineLayouts
                       /\ constructed' = c.constructed
                /\ meshReads' = meshReads \cup MeshReadsOf(s.cmds)
                /\ AttachFence(d)
                /\ UNCHANGED <<m_currentFrameIdx, m_bufferRingIdx, waitedFence,
                               fenceSignaled, renderBuffers>>

(***************************************************************************)
(* The client: PLSRenderContext, which builds the draw lists and calls     *)
(* prepareToMapBuffers once and flush one or more times per frame, the     *)
(* last of them with isFinalFlushOfFrame set.                              *)
(***************************************************************************)
SeqsUpTo(S, n) == UNION {[1 .. k -> S] : k \in 0 .. n}

\* pls::DrawBatch: what flush() reads of a batch.
DrawBatch(drawType, elementCount, needsBarrier, imageTexture, vertexBuffer, uvBuffer, indexBuffer) ==
    [drawType |-> drawType, elementCount |-> elementCount,
     needsBarrier |-> needsBarrier, imageTexture |-> imageTexture,
     vertexBuffer |-> vertexBuffer, uvBuffer |-> uvBuffer,
     indexBuffer |-> indexBuffer, baseElement |-> 0]

\* The batch that ends every atomics draw list (spec 4.5, step 6).
AtomicResolveBatch == DrawBatch("plsAtomicResolve", 1, FALSE, 0, 0, 0, 0)

\* The draw list of a flush whose batches are `batches`: an atomics flush
\* resolves after them.
DrawListOf(interlockMode, batches) ==
    IF interlockMode = "atomics"
    THEN Append(batches, AtomicResolveBatch)
    ELSE batches

\* pls::FlushDescriptor: what flush() reads of it. The fence of a frame is
\* named by the frame.
FlushDescriptor(interlockMode, colorLoadAction, spans, advancedBlend, batches, isFinalFlushOfFrame) ==
    [interlockMode |-> interlockMode, colorLoadAction |-> colorLoadAction,
     complexGradSpanCount |-> spans[1], simpleGradTexelsHeight |-> spans[2],
     tessVertexSpanCount |-> spans[3], advancedBlend |-> advancedBlend,
     drawList |-> DrawListOf(interlockMode, batches),
     isFinalFlushOfFrame |-> isFinalFlushOfFrame,
     frameCompletionFence |-> m_currentFrameIdx,
     coverageClearValue |-> 1]

\* The frame's final flush has been issued.
FrameEnded == flushesThisFrame > 0 /\ desc.isFinalFlushOfFrame

ClientPrepareToMapBuffers ==
    /\ flushesThisFrame = 0 \/ FrameEnded
    /\ prepareToMapBuffers

ClientFlush(d) ==
    /\ m_currentFrameIdx > 0
    /\ ~FrameEnded
    /\ flushesThisFrame + 1 = MaxFlushesPerFrame => d.isFinalFlushOfFrame
    /\ \A n \in 1 .. Len(d.drawList) :
           d.drawList[n].drawType = "imageMesh" =>
               \A b \in {d.drawList[n].vertexBuffer, d.drawList[n].uvBuffer,
                          d.drawList[n].indexBuffer} :
                   ~renderBuffers[b].mapped
    /\ flush(d)

(***************************************************************************)
(* Spec: frames on the buffer ring. Every flush draws image-textured path  *)
(* batches in rasterOrdering mode; the GPU signals fences when it likes.   *)
(***************************************************************************)
TexturedBatch(t) == DrawBatch("midpointFanPatches", 1, FALSE, t, 0, 0, 0)

\* Draw lists of up to MaxBatches batches that draw with texture 1 and then,
\* or not, with texture 2.
TexturedDrawLists ==
    {bs \in SeqsUpTo({TexturedBatch(t) : t \in Textures}, MaxBatches) :
        \A n \in DOMAIN bs :
            /\ n = 1 => bs[n].imageTexture = 1
            /\ n > 2 => bs[n] = bs[n - 1]}

Next ==
    \/ ClientPrepareToMapBuffers
    \/ \E bs \in TexturedDrawLists, fin \in BOOLEAN :
          ClientFlush(FlushDescriptor("rasterOrdering", "clear", <<0, 0, 0>>,
                                      FALSE, bs, fin))
    \/ GpuSignalFence

Spec == Init /\ [][Next]_vars

\* C1: when prepareToMapBuffers returns with m_bufferRingIdx = k, every
\* frame-completion fence that a final flush ever attached to ring slot k has
\* signaled.
RingSlotWritableOnlyAfterFence ==
    call = "prepareToMapBuffers" =>
        \A fs \in fenceSlots :
            fs[2] = m_bufferRingIdx => fs[1] \in fenceSignaled

\* prepareToMapBuffers has come back to a slot whose fence it had to wait on.
RingSlotReusedAfterWait ==
    /\ call = "prepareToMapBuffers"
    /\ waitedFence # NullFence
    /\ <<waitedFence, m_bufferRingIdx>> \in fenceSlots
    /\ m_currentFrameIdx = waitedFence + kBufferRingSize

\* C8: in one frame (since the last prepareToMapBuffers) at most one
\* descriptor set has been allocated for any image texture.
ImageTextureDescriptorSetOncePerFrame ==
    \A t \in Textures : descriptorSetAllocs[t] <= 1

\* The image-texture descriptor sets bound by the last flush, as indices of
\* cmds.
ImageTextureBinds(t) ==
    {n \in DOMAIN cmds :
        /\ cmds[n].op = "BindDescriptorSets"
        /\ cmds[n].obj = "imageTexture"
        /\ cmds[n].a = TextureName(t)}

\* The second flush of a frame binds texture 1 in two batches, with the
\* descriptor set that the first flush allocated.
TextureReusedAcrossBatchesAndFlushes ==
    /\ call = "flush"
    /\ flushesThisFrame = 2
    /\ Cardinality(ImageTextureBinds(1)) = 2
    /\ \A n \in DOMAIN cmds : cmds[n].op # "UpdateDescriptorSet"
                                \/ cmds[n].obj # TextureName(1)
    /\ descriptorSetAllocs[1] = 1

\* C9: every image-texture descriptor set that a flush binds is valid when
\* it is bound, and so is the per-flush descriptor set bound with it: the
\* pool of neither has been destroyed or reset since the set was allocated.
BoundImageTextureDescriptorSetsValid ==
    \A t \in Textures : \A n \in ImageTextureBinds(t) : cmds[n].k = 1

(***************************************************************************)
(* SpecMesh: the client maps and unmaps its render buffers at any time and *)
(* draws image meshes from them.                                           *)
(***************************************************************************)
\* Frames of SpecMesh.
MaxMeshFrames == 2

ImageMeshBatch == DrawBatch("imageMesh", 1, FALSE, 1, 1, 1, 2)

\* The image meshes of SpecMesh: the second one keeps its vertices in buffer
\* 2, its uvs and indices in buffer 1, and starts at index 3.
ImageMeshBatches ==
    {ImageMeshBatch,
     [DrawBatch("imageMesh", 2, FALSE, 1, 2, 1, 1) EXCEPT !.baseElement = 3]}

NextMesh ==
    \/ /\ m_currentFrameIdx < MaxMeshFrames
       /\ ClientPrepareToMapBuffers
    \/ \E fin \in BOOLEAN, batch \in ImageMeshBatches :
          ClientFlush(FlushDescriptor("rasterOrdering", "preserveRenderTarget",
                                      <<0, 0, 0>>, FALSE, <<batch>>, fin))
    \/ GpuSignalFence
    \/ \E b \in RenderBuffers : onMap(b)
    \/ \E b \in RenderBuffers : onUnmap(b)

SpecMesh == Init /\ [][NextMesh]_vars

\* C2: the slot of its ring that a mapped render buffer has handed out for
\* writing is not a slot that an image-mesh draw of a frame whose fence has
\* not signaled reads.
MappedSlotNotReadByUnfinishedFrame ==
    \A b \in RenderBuffers :
        renderBuffers[b].mapped =>
            \A r \in meshReads :
                ~(r[2] = b /\ r[3] = renderBuffers[b].m_bufferRingIdx)

(***************************************************************************)
(* SpecFlush: the calls of one flush, over draw lists of every shape. A    *)
(* frame is one flush, or a plain flush and then one more.                 *)
(***************************************************************************)

\* Frames of SpecFlush.
MaxFlushFrames == 2

PathBatches ==
    {DrawBatch("midpointFanPatches", n, b, 0, 0, 0, 0) :
        n \in {0, 1}, b \in BOOLEAN}

ImageRectBatches ==
    {DrawBatch("imageRect", n, b, 1, 0, 0, 0) : n \in {0, 1}, b \in BOOLEAN}

\* The batches a draw list of the mode can hold: image rects are drawn as
\* imageRect batches in atomics mode only.
BatchesFor(interlockMode) ==
    IF interlockMode = "atomics"
    THEN PathBatches \cup ImageRectBatches
    ELSE PathBatches

AllSpans == {<<g, s, t>> : g \in {0, 1}, s \in {0, 2}, t \in {0, 3}}

PlainDrawLists ==
    {<<>>, <<DrawBatch("interiorTriangulation", 1, FALSE, 1, 0, 0, 0)>>}

\* desc.coverageClearValue of the flushes that do not end the frame.
CoverageClearValues == {1, 2}

NextFlush ==
    \/ /\ m_currentFrameIdx < MaxFlushFrames
       /\ ClientPrepareToMapBuffers
    \/ \E m \in {"rasterOrdering", "atomics"}, bs \in PlainDrawLists,
          coverageClearValue \in CoverageClearValues :
          ClientFlush([FlushDescriptor(m, "preserveRenderTarget", <<0, 0, 0>>,
                                       FALSE, bs, FALSE)
                          EXCEPT !.coverageClearValue = coverageClearValue])
    \/ \E m \in {"rasterOrdering", "atomics"},
          l \in {"preserveRenderTarget", "clear"}, adv \in BOOLEAN :
          \E bs \in SeqsUpTo(BatchesFor(m), MaxBatches) :
              ClientFlush(FlushDescriptor(m, l, <<1, 2, 3>>, adv, bs, TRUE))
    \/ \E m \in {"rasterOrdering", "atomics"}, sp \in AllSpans :
          ClientFlush(FlushDescriptor(m, "dontCare", sp, FALSE,
                                      <<TexturedBatch(2)>>, TRUE))
    \/ \E bs \in PlainDrawLists, fin \in BOOLEAN :
          ClientFlush(FlushDescriptor("depthStencil", "clear", <<1, 2, 3>>,
                                      FALSE, bs, fin))

SpecFlush == Init /\ [][NextFlush]_vars

\* The calls of the last flush, by their index in cmds.
CmdIdx(op, obj) == {n \in DOMAIN cmds : cmds[n].op = op /\ cmds[n].obj = obj}

\* The draws of the draw list.
DrawIdx == {n \in DOMAIN cmds : cmds[n].op = "Draw" /\ cmds[n].i > 0}

BarrierIdx == {n \in DOMAIN cmds : cmds[n].op = "PipelineBarrier"}

ResolveIdx == CmdIdx("Draw", "plsAtomicResolve")

Flushed(interlockMode) == call = "flush" /\ desc.interlockMode = interlockMode

\* The step of a flush a call belongs to: 1 complex gradients, 2 simple
\* ramps, 3 tessellation, 4 image-texture uploads, 5 render-target sync,
\* 6 main draw pass; 0 for a call found in more than one step.
Stage(c) ==
    CASE c.obj \in {"colorRamp", "complexGradSpans"} -> 1
      [] c.op = "CopyBufferToImage" /\ c.a = "simpleColorRampsBufferRing" -> 2
      [] c.obj \in {"tessellate", "tessSpans"} -> 3
      [] c.op = "BlitImage" -> 4
      [] c.op = "CopyBufferToImage" /\ c.a = "imageUploadBuffer" -> 4
      [] c.op = "ImageBarrier" /\ c.b = "GENERAL" /\ c.a = "UNDEFINED" -> 5
      [] c.op \in {"BeginRenderPass", "EndRenderPass"} /\ c.obj = "draw" -> 6
      [] c.op = "BindDescriptorSets" /\ c.obj \in {"perFlush", "imageTexture"} -> 6
      [] c.op = "Draw" /\ c.i > 0 -> 6
      [] c.op = "PipelineBarrier" -> 6
      [] OTHER -> 0

IsStage(n) == n # 0

IsRenderPassCmd(c) == c.op \in {"BeginRenderPass", "EndRenderPass"}

\* C3: a flush that is not depthStencil records its steps in the order
\* complex-gradient pass, simple-ramp copy, tessellation pass, image-texture
\* uploads, render-target sync, main draw pass; a step is recorded exactly
\* when the descriptor asks for it; every render pass is ended before the
\* next begins; and in the main pass the per-flush descriptor set is bound
\* after the begin and every draw lies between that bind and the end.
FlushRecordsInStrictOrder ==
    (call = "flush" /\ desc.interlockMode # "depthStencil") =>
        /\ LET stages == SelectSeq([n \in DOMAIN cmds |-> Stage(cmds[n])], IsStage)
           IN  \A n \in 1 .. Len(stages) - 1 : stages[n] <= stages[n + 1]
        /\ LET passes == SelectSeq(cmds, IsRenderPassCmd)
           IN  /\ Len(passes) % 2 = 0
               /\ \A n \in DOMAIN passes :
                      n % 2 = 1 =>
                          /\ passes[n].op = "BeginRenderPass"
                          /\ passes[n + 1] = EndRenderPass(passes[n].obj)
        /\ Cardinality(CmdIdx("BeginRenderPass", "colorRamp")) =
               (IF desc.complexGradSpanCount > 0 THEN 1 ELSE 0)
        /\ Cardinality({n \in DOMAIN cmds : Stage(cmds[n]) = 2}) =
               (IF desc.simpleGradTexelsHeight > 0 THEN 1 ELSE 0)
        /\ Cardinality(CmdIdx("BeginRenderPass", "tessellate")) =
               (IF desc.tessVertexSpanCount > 0 THEN 1 ELSE 0)
        /\ Cardinality(CmdIdx("BeginRenderPass", "draw")) = 1
        /\ Cardinality(CmdIdx("BindDescriptorSets", "perFlush")) = 1
        /\ \A b \in CmdIdx("BeginRenderPass", "draw"),
              f \in CmdIdx("BindDescriptorSets", "perFlush"),
              e \in CmdIdx("EndRenderPass", "draw") :
               /\ b < f
               /\ f < e
               /\ e = Len(cmds)
               /\ \A q \in DrawIdx : f < q /\ q < e

\* A flush has recorded every one of the six steps, and two draws.
FlushWithEveryStep ==
    /\ call = "flush"
    /\ {Stage(cmds[n]) : n \in DOMAIN cmds} = 0 .. 6
    /\ Cardinality(DrawIdx) >= 2

\* C4: an atomics flush with colorLoadAction = clear and advanced blend
\* that issues a draw records a memory barrier after the main render pass
\* begins and before its first draw.
ClearBarrierBeforeFirstDraw ==
    (/\ Flushed("atomics")
     /\ desc.colorLoadAction = "clear"
     /\ desc.advancedBlend
     /\ DrawIdx # {}) =>
        \E r \in BarrierIdx :
            /\ \A b \in CmdIdx("BeginRenderPass", "draw") : b < r
            /\ \A q \in DrawIdx : r < q

\* Such a flush, whose first batch is skipped and whose second is drawn.
ClearFlushWithSkippedFirstBatch ==
    /\ Flushed("atomics")
    /\ desc.colorLoadAction = "clear"
    /\ desc.advancedBlend
    /\ Len(desc.drawList) >= 3
    /\ desc.drawList[1].elementCount = 0
    /\ desc.drawList[2].elementCount > 0
    /\ Cardinality(DrawIdx) = 2

\* C5: in an atomics flush, between the draw of a batch with needsBarrier
\* and the next draw of the flush a memory barrier is recorded.
BarrierAfterNeedsBarrierBatch ==
    Flushed("atomics") =>
        \A p, q \in DrawIdx :
            (/\ p < q
             /\ desc.drawList[cmds[p].i].needsBarrier
             /\ ~\E m \in DrawIdx : p < m /\ m < q) =>
                \E r \in BarrierIdx : p < r /\ r < q

\* An atomics flush draws a batch with needsBarrier, skips the batch after
\* it and draws again.
NeedsBarrierThenSkippedBatch ==
    /\ Flushed("atomics")
    /\ Len(desc.drawList) >= 3
    /\ desc.drawList[1].needsBarrier
    /\ desc.drawList[1].elementCount > 0
    /\ desc.drawList[2].elementCount = 0
    /\ ~desc.drawList[2].needsBarrier
    /\ Cardinality(DrawIdx) = 2

\* C6: every memory barrier of a flush is recorded inside the main draw
\* pass of an atomics flush, and either no draw precedes it and
\* colorLoadAction = clear, or the batch drawn last before it had
\* needsBarrier; a rasterOrdering flush fails no assert.
BarrierOnlyWhereNeeded ==
    call = "flush" =>
        /\ \A r \in BarrierIdx :
               LET before == {p \in DrawIdx : p < r}
                   last == CHOOSE p \in before : \A o \in before : o <= p
               IN  /\ desc.interlockMode = "atomics"
                   /\ \A b \in CmdIdx("BeginRenderPass", "draw") : b < r
                   /\ \A e \in CmdIdx("EndRenderPass", "draw") : r < e
                   /\ IF before = {}
                      THEN desc.colorLoadAction = "clear"
                      ELSE desc.drawList[cmds[last].i].needsBarrier
        /\ desc.interlockMode = "rasterOrdering" =>
               \A n \in DOMAIN cmds : cmds[n].op # "AssertionFailure"

\* A rasterOrdering flush with colorLoadAction = clear draws a batch with
\* needsBarrier and then another batch.
RasterOrderingWithNeedsBarrier ==
    /\ Flushed("rasterOrdering")
    /\ desc.colorLoadAction = "clear"
    /\ Len(desc.drawList) = 2
    /\ desc.drawList[1].needsBarrier
    /\ Cardinality(DrawIdx) = 2

DepthStencilFlushIsNoOp ==
    [][(/\ flushesThisFrame' = flushesThisFrame + 1
        /\ desc'.interlockMode = "depthStencil") =>
            (cmds' = <<>> /\ UNCHANGED engineVars)]_vars

\* A depthStencil flush that draws and is the final flush of its frame has
\* returned.
DepthStencilFinalFlush ==
    /\ Flushed("depthStencil")
    /\ desc.isFinalFlushOfFrame
    /\ desc.drawList # <<>>
    /\ desc.frameCompletionFence # NullFence
    /\ m_frameCompletionFences[m_bufferRingIdx] = NullFence

(***************************************************************************)
(* The frame-completion fences, under SpecFlush: flushes of every          *)
(* interlock mode, final and not.                                          *)
(***************************************************************************)
\* A step that is a flush() call.
IsFlushStep == flushesThisFrame' = flushesThisFrame + 1

\* C11: a flush that is not depthStencil and has isFinalFlushOfFrame set
\* leaves desc.frameCompletionFence in the current ring slot; a flush with
\* isFinalFlushOfFrame clear leaves every stored fence as it was; no flush
\* changes the fence of a slot other than the current one.
FlushStoresFenceInCurrentSlotOnly ==
    [][IsFlushStep =>
          /\ (desc'.interlockMode # "depthStencil" /\ desc'.isFinalFlushOfFrame) =>
                 m_frameCompletionFences'[m_bufferRingIdx] = desc'.frameCompletionFence
          /\ ~desc'.isFinalFlushOfFrame =>
                 m_frameCompletionFences' = m_frameCompletionFences
          /\ \A k \in RingSlots \ {m_bufferRingIdx} :
                 m_frameCompletionFences'[k] = m_frameCompletionFences[k]]_vars

\* The final flush of the second frame has stored its fence in slot 1, next
\* to the fence of the first frame in slot 0.
FinalFlushStoredFence ==
    /\ call = "flush"
    /\ desc.interlockMode = "atomics"
    /\ desc.isFinalFlushOfFrame
    /\ m_bufferRingIdx = 1
    /\ m_frameCompletionFences[1] = desc.frameCompletionFence
    /\ m_frameCompletionFences[1] # NullFence
    /\ m_frameCompletionFences[0] \notin {NullFence, m_frameCompletionFences[1]}

(***************************************************************************)
(* SpecLifetime: frames on the ring as in Spec, with one render buffer     *)
(* mapped and unmapped at any time, until the client destroys the context. *)
(***************************************************************************)
LifetimeDrawLists == {<<>>, <<TexturedBatch(1)>>}

\* The flushes of SpecLifetime.
LifetimeFlushes ==
    {FlushDescriptor("rasterOrdering", "clear", <<0, 0, 0>>, FALSE, bs, fin) :
        bs \in LifetimeDrawLists, fin \in BOOLEAN}

NextLifetime ==
    \/ /\ ~Destroyed
       /\ ClientPrepareToMapBuffers
    \/ /\ ~Destroyed
       /\ \E d \in LifetimeFlushes : ClientFlush(d)
    \/ GpuSignalFence
    \/ /\ ~Destroyed
       /\ onMap(1)
    \/ /\ ~Destroyed
       /\ onUnmap(1)
    \/ DestroyPLSRenderContextVulkanImpl

SpecLifetime == Init /\ [][NextLifetime]_vars

\* The fence is null or has signaled: a wait on it returns at once.
Passed(fence) == fence = NullFence \/ fence \in fenceSignaled

\* C12: the CPU waits on a fence in prepareToMapBuffers only, for the fence
\* of the slot it is about to reuse, and in the destructor, for every stored
\* fence. prepareToMapBuffers can return exactly when the fence of the next
\* slot has passed, whatever the other fences; the destructor returns only
\* when every stored fence has passed; flush, with its makeDescriptorSetPool,
\* and RenderBuffer map and unmap can always complete, whatever the GPU has
\* signaled.
CpuWaitsOnlyInPrepareAndDestructor ==
    /\ m_currentFrameIdx < MaxFrames =>
           (ENABLED prepareToMapBuffers
               <=> Passed(m_frameCompletionFences[NextRingIdx(m_bufferRingIdx)]))
    /\ call = "prepareToMapBuffers" => Passed(waitedFence)
    /\ Destroyed => \A k \in RingSlots : Passed(m_frameCompletionFences[k])
    /\ flushesThisFrame < MaxFlushesPerFrame =>
           \A d \in LifetimeFlushes : ENABLED flush(d)
    /\ \A b \in RenderBuffers :
           /\ ~renderBuffers[b].mapped => ENABLED onMap(b)
           /\ renderBuffers[b].mapped => ENABLED onUnmap(b)

\* A flush has completed while the fences of the two frames before it are
\* stored and the GPU has signaled neither.
FlushCompletedWithFramesInFlight ==
    /\ call = "flush"
    /\ m_currentFrameIdx = 3
    /\ \A k \in RingSlots \ {m_bufferRingIdx} :
           ~Passed(m_frameCompletionFences[k])

(***************************************************************************)
(* SpecRing: frames around the buffer ring whose flushes render gradient   *)
(* and tessellation spans and triangles out of the context's buffer rings. *)
(***************************************************************************)
\* The vkutil::BufferRing members of the context.
ContextBufferRings ==
    {"flushUniformBufferRing", "imageDrawUniformBufferRing", "pathBufferRing",
     "paintBufferRing", "paintAuxBufferRing", "contourBufferRing",
     "simpleColorRampsBufferRing", "gradSpanBufferRing", "tessSpanBufferRing",
     "triangleBufferRing"}

NextRing ==
    \/ ClientPrepareToMapBuffers
    \/ \E m \in {"rasterOrdering", "atomics"}, bs \in PlainDrawLists,
          fin \in BOOLEAN :
          ClientFlush(FlushDescriptor(m, "clear", <<1, 2, 3>>, FALSE, bs, fin))
    \/ GpuSignalFence

SpecRing == Init /\ [][NextRing]_vars

\* The calls of the last flush that read a buffer ring of the context, by
\* their index in cmds; each of them has the slot it reads in field j.
RingReads ==
    {n \in DOMAIN cmds :
        cmds[n].obj \in ContextBufferRings \/ cmds[n].a \in ContextBufferRings}

\* The rings that the last flush read.
RingsRead ==
    {cmds[n].obj : n \in RingReads} \cup {cmds[n].a : n \in RingReads}

\* C13: m_bufferRingIdx and m_currentFrameIdx change in prepareToMapBuffers
\* only, the one by +1 modulo kBufferRingSize and the other by +1; after the
\* first prepareToMapBuffers the ring index is within [0, kBufferRingSize);
\* and every read of a buffer ring of the context that a flush records is of
\* the slot m_bufferRingIdx, the same for all the flushes of a frame.
RingIdxAdvancesOncePerFrame ==
    /\ [](m_currentFrameIdx > 0 => m_bufferRingIdx \in 0 .. kBufferRingSize - 1)
    /\ [](call = "flush" => \A n \in RingReads : cmds[n].j = m_bufferRingIdx)
    /\ [][(m_bufferRingIdx' # m_bufferRingIdx
              \/ m_currentFrameIdx' # m_currentFrameIdx) =>
             /\ call' = "prepareToMapBuffers"
             /\ m_currentFrameIdx' = m_currentFrameIdx + 1
             /\ m_bufferRingIdx' = (m_bufferRingIdx + 1) % kBufferRingSize]_vars

\* The second flush of the fourth frame has read eight of the rings, all at
\* slot 0, which the ring index has come back to.
SecondFlushReadsWrappedSlot ==
    /\ call = "flush"
    /\ flushesThisFrame = 2
    /\ m_currentFrameIdx = kBufferRingSize + 1
    /\ m_bufferRingIdx = 0
    /\ Cardinality(RingsRead \cap ContextBufferRings) >= 8

(***************************************************************************)
(* Image texture uploads, under Spec.                                      *)
(***************************************************************************)
\* The uploads of image texture t among the calls cs, by their index.
Uploads(t, cs) ==
    {n \in DOMAIN cs :
        /\ cs[n].op = "CopyBufferToImage"
        /\ cs[n].obj = TextureName(t)
        /\ cs[n].a = "imageUploadBuffer"}

\* C14: an image texture is uploaded at most once over any sequence of
\* flushes. A flush records at most one upload of a texture, and only of a
\* texture that has updates (its staging buffer) when the flush begins; the
\* texture has none when the flush ends, and a texture that has no updates
\* never has updates again.
ImageTextureUploadedAtMostOnce ==
    [][/\ \A t \in {0} \cup Textures :
              ~imageTextures[t].hasUpdates => ~imageTextures'[t].hasUpdates
       /\ IsFlushStep =>
              \A t \in {0} \cup Textures :
                  /\ Cardinality(Uploads(t, cmds')) <= 1
                  /\ Uploads(t, cmds') # {} =>
                         /\ imageTextures[t].hasUpdates
                         /\ ~imageTextures'[t].hasUpdates]_vars

\* A flush draws twice with texture 1, which a flush of an earlier frame
\* uploaded, and records no upload.
UploadedTextureDrawnAgain ==
    /\ call = "flush"
    /\ m_currentFrameIdx = 2
    /\ Cardinality(ImageTextureBinds(1)) = 2
    /\ ~imageTextures[1].hasUpdates
    /\ \A t \in {0} \cup Textures : Uploads(t, cmds) = {}
    /\ imageTextures[2].hasUpdates

(***************************************************************************)
(* Image textures bound for sampling, under SpecFlush.                     *)
(***************************************************************************)
\* The calls among cs that bind image texture t for sampling, by their
\* index: the per-draw binds of a batch's texture and, for the null image
\* texture, the bind of the draw pass's descriptor sets, of which
\* layout.nullImageDescriptorSet() is one.
SamplingBinds(t, cs) ==
    {n \in DOMAIN cs :
        /\ cs[n].op = "BindDescriptorSets"
        /\ IF t = 0
           THEN cs[n].obj = "perFlush"
           ELSE cs[n].obj = "imageTexture" /\ cs[n].a = TextureName(t)}

\* Where the main render pass begins among cs.
DrawPassBegin(cs) == {n \in DOMAIN cs : cs[n] = BeginRenderPass("draw")}

\* C15: every image texture that a flush binds for sampling, the null image
\* texture included, has no pending upload when the flush ends, and its
\* upload was recorded by an earlier flush or by this one ahead of the main
\* render pass.
BoundImageTexturesUploadedBeforeDrawPass ==
    [][IsFlushStep =>
          \A t \in {0} \cup Textures :
              SamplingBinds(t, cmds') # {} =>
                  /\ ~imageTextures'[t].hasUpdates
                  /\ \/ ~imageTextures[t].hasUpdates /\ Uploads(t, cmds') = {}
                     \/ /\ Uploads(t, cmds') # {}
                        /\ \A m \in Uploads(t, cmds'), b \in DrawPassBegin(cmds') :
                               m < b]_vars

\* The second flush of a frame binds texture 1, uploaded by the first, and
\* samples the null image texture without an upload of its own.
BoundTextureUploadedByEarlierFlush ==
    /\ call = "flush"
    /\ flushesThisFrame = 2
    /\ SamplingBinds(1, cmds) # {}
    /\ SamplingBinds(0, cmds) # {}
    /\ Uploads(1, cmds) = {}
    /\ Uploads(0, cmds) = {}
    /\ ~imageTextures[1].hasUpdates

(***************************************************************************)
(* SpecDraws: the client makes draws with any gradient, with and without   *)
(* an image, and hands them to the context or gives them up; the context   *)
(* flushes when a gradient does not fit and at the end of the frame.       *)
(***************************************************************************)
NextDraws ==
    \/ \E g \in {0} \cup Gradients, t \in {0, 1} : MakeDraw(g, t)
    \/ PushDraw
    \/ PartialFlush
    \/ DropDraw
    \/ EndFrame

SpecDraws == Init /\ [][NextDraws]_vars

\* A step in which the context calls allocateGradientIfNeeded for the
\* pending draw: the first time, or again after the partial flush.
IsPushStep ==
    \/ plsRenderContext'.accepted # plsRenderContext.accepted
    \/ plsRenderContext.retry /\ ~plsRenderContext'.retry

\* The rows that the gradients of G take in the texture: the simple ramps
\* packed into rows, and a row for each complex ramp.
RowsFor(G) ==
    SimpleRampRows(Cardinality({g \in G : ~IsComplex(g)}))
        + Cardinality({g \in G : IsComplex(g)})

\* The gradient texture has room for g next to the gradients it holds.
HasRoomFor(g) == RowsFor(plsRenderContext.gradients \cup {g}) <= GradTextureRows

\* C16: allocateGradientIfNeeded returns false if and only if the draw has
\* a gradient and the gradient texture has no room for it; it returns true
\* for a draw without a gradient and for a gradient that fits.
AllocateGradientFalseIffNoRoom ==
    [][IsPushStep =>
          /\ plsRenderContext'.lastAllocation \in {"true", "false"}
          /\ plsRenderContext'.lastAllocation = "false"
                 <=> /\ plsRenderContext.pending.gradient # 0
                     /\ ~HasRoomFor(plsRenderContext.pending.gradient)]_vars

\* The texture is full of complex ramps and the call for one more gradient
\* has returned false.
AllocationReturnedFalse ==
    /\ plsRenderContext.lastAllocation = "false"
    /\ plsRenderContext.spilled
    /\ plsRenderContext.complexRampRows = GradTextureRows
    /\ plsRenderContext.pending.gradient \notin plsRenderContext.gradients \cup {0}
    /\ \E n \in DOMAIN plsRenderContext.drawList :
           plsRenderContext.drawList[n].gradient = 0

\* C17: when allocateGradientIfNeeded returns false the context flushes what
\* is queued so far: the partial flush emits the queued draws, empties the
\* list and leaves the row cursor at 0; the allocation is called again for
\* the same draw and succeeds; and the draws emitted, queued and waiting are
\* at all times the draws handed over, each once and in their order.
SpillFlushesAndRetrySucceeds ==
    /\ [](plsRenderContext.accepted =
              plsRenderContext.emitted \o Ids(plsRenderContext.drawList)
                  \o (IF plsRenderContext.spilled \/ plsRenderContext.retry
                      THEN <<plsRenderContext.pending.id>>
                      ELSE <<>>))
    /\ [](\A m, n \in DOMAIN plsRenderContext.emitted :
              plsRenderContext.emitted[m] = plsRenderContext.emitted[n] => m = n)
    /\ [][/\ (plsRenderContext.spilled /\ plsRenderContext' # plsRenderContext) =>
                 /\ plsRenderContext'.retry /\ ~plsRenderContext'.spilled
                 /\ plsRenderContext'.emitted =
                        plsRenderContext.emitted \o Ids(plsRenderContext.drawList)
                 /\ plsRenderContext'.drawList = <<>>
                 /\ plsRenderContext'.complexRampRows = 0
                 /\ plsRenderContext'.simpleRampCount = 0
                 /\ plsRenderContext'.pending = plsRenderContext.pending
          /\ (plsRenderContext.retry /\ plsRenderContext' # plsRenderContext) =>
                 /\ plsRenderContext'.lastAllocation = "true"
                 /\ plsRenderContext'.drawList = <<plsRenderContext.pending>>
                 /\ plsRenderContext'.pending = NoDraw]_vars

\* The draw that spilled the flush is in the list after the retry, with its
\* gradient in the first row, and the three draws before it are emitted.
SpilledDrawRetried ==
    /\ plsRenderContext.emitted = <<1, 2, 3>>
    /\ Ids(plsRenderContext.drawList) = <<4>>
    /\ plsRenderContext.lastAllocation = "true"
    /\ plsRenderContext.complexRampRows = 1
    /\ plsRenderContext.accepted = <<1, 2, 3, 4>>

\* The draws of the list that hold a reference to shared object o.
UnreleasedHolders(o) ==
    {n \in DOMAIN plsRenderContext.drawList :
        o \in RefsOf(plsRenderContext.drawList[n])}

ShaderKeys == {U32(0, 0), U32(0, 1), U32(5461, 21845), U32(32768, 0)}

\* pls::ShaderUniqueKey is made of the draw type, the shader features and the
\* interlock mode, so a shader key belongs to one interlock mode: of the keys
\* above, 1 and 0x15555555 are keys of atomics shaders.
InterlockModeOfShader(shaderKey) ==
    IF shaderKey \in {U32(0, 1), U32(5461, 21845)} THEN "atomics" ELSE "rasterOrdering"

NextPipelines ==
    \E shaderKey \in ShaderKeys, fillModeNonSolid \in BOOLEAN, wireframe \in BOOLEAN,
       framebufferFormat \in FramebufferFormats, colorLoadAction \in LoadActions :
        SelectDrawPipeline(shaderKey, InterlockModeOfShader(shaderKey),
                           fillModeNonSolid, wireframe,
                           framebufferFormat, colorLoadAction)

SpecPipelines == Init /\ [][NextPipelines]_vars

\* The load op of a load action.
LoadOpOf(loadAction) ==
    CASE loadAction = "preserveRenderTarget" -> "LOAD_OP_LOAD"
      [] loadAction = "clear" -> "LOAD_OP_CLEAR"
      [] loadAction = "dontCare" -> "LOAD_OP_DONT_CARE"

\* C19: RenderPassVariantIdx maps the two framebuffer formats and the three
\* load actions one-to-one onto 0..5, and the render pass of the index has
\* the format and the load op of the load action that the index was made of.
RenderPassVariantRoundTrip ==
    /\ {RenderPassVariantIdx(f, l) : f \in FramebufferFormats, l \in LoadActions}
           = 0 .. kRenderPassVariantCount - 1
    /\ \A f1, f2 \in FramebufferFormats, l1, l2 \in LoadActions :
           RenderPassVariantIdx(f1, l1) = RenderPassVariantIdx(f2, l2) =>
               f1 = f2 /\ l1 = l2
    /\ drawPipeline # NoDrawPipeline =>
           LET request == drawPipeline.request
           IN  /\ request.renderPassVariantIdx \in 0 .. kRenderPassVariantCount - 1
               /\ request.drawRenderPass.format = request.framebufferFormat
               /\ request.drawRenderPass.loadOp = LoadOpOf(request.colorLoadAction)

\* A draw to a B8G8R8A8 target that is not cleared or loaded has selected
\* variant 5, whose render pass has that format and LOAD_OP_DONT_CARE.
DontCareVariantSelected ==
    /\ drawPipeline # NoDrawPipeline
    /\ drawPipeline.outcome = "bound"
    /\ drawPipeline.request.framebufferFormat = "B8G8R8A8_UNORM"
    /\ drawPipeline.request.colorLoadAction = "dontCare"
    /\ drawPipeline.request.renderPassVariantIdx = 5
    /\ drawPipeline.request.drawRenderPass =
           [format |-> "B8G8R8A8_UNORM", loadOp |-> "LOAD_OP_DONT_CARE"]

\* C20: the pipeline key is collision-free whenever the two asserts hold:
\* the DrawPipeline that m_drawPipelines holds under the key of a draw was
\* made for that draw's shader key, options and render pass variant, when the
\* asserts hold for the draw and held for the draw the pipeline was made for.
PipelineKeysCollisionFree ==
    (/\ drawPipeline.outcome = "bound"
     /\ drawPipeline.request.assertsHold
     /\ AssertsHold(drawPipeline.pipeline.shaderKey,
                    drawPipeline.pipeline.drawPipelineOptions)) =>
        drawPipeline.pipeline =
            DrawPipeline(drawPipeline.request.shaderKey,
                         drawPipeline.request.drawPipelineOptions,
                         drawPipeline.request.drawRenderPass)

\* The names, in constructed, of the objects that the caches hold.
CachedObjects ==
    {<<"DrawPipelineLayout", interlockMode>> : interlockMode \in m_drawPipelineLayouts}
        \cup {<<"VkRenderPass", pass[1], pass[2]>> : pass \in DOMAIN m_renderPasses}
        \cup {<<"DrawShader", shaderKey>> : shaderKey \in DOMAIN m_drawShaders}
        \cup {<<"DrawPipeline", pipelineKey>> : pipelineKey \in DOMAIN m_drawPipelines}

\* Every entry of the map is in the map after the step, with the same value.
Kept(map, mapAfter) ==
    \A key \in DOMAIN map : key \in DOMAIN mapAfter /\ mapAfter[key] = map[key]

\* C21: the constructor of a DrawPipeline runs at most once per pipeline key,
\* of a DrawShader once per shader key, of a DrawPipelineLayout once per
\* interlock mode and of a render pass once per interlock mode and variant;
\* no draw removes or replaces an object that a cache holds, and a draw whose
\* pipeline key is in m_drawPipelines binds the pipeline that the map held.
CachedObjectsBuiltAtMostOnce ==
    /\ [](/\ DOMAIN constructed = CachedObjects
          /\ \A object \in DOMAIN constructed : constructed[object] = 1)
    /\ [][/\ m_drawPipelineLayouts \subseteq m_drawPipelineLayouts'
          /\ Kept(m_renderPasses, m_renderPasses')
          /\ Kept(m_drawShaders, m_drawShaders')
          /\ Kept(m_drawPipelines, m_drawPipelines')
          /\ (/\ drawPipeline' # drawPipeline
              /\ drawPipeline'.outcome = "bound"
              /\ drawPipeline'.pipelineKey \in DOMAIN m_drawPipelines) =>
                 /\ ~drawPipeline'.emplaced
                 /\ drawPipeline'.pipeline = m_drawPipelines[drawPipeline'.pipelineKey]
                 /\ constructed'[<<"DrawPipeline", drawPipeline'.pipelineKey>>] = 1]_vars

\* The cache holds two pipelines, of shaders of both interlock modes, and the
\* last draw found its pipeline in m_drawPipelines.
PipelineCacheHit ==
    /\ drawPipeline.outcome = "bound"
    /\ ~drawPipeline.emplaced
    /\ Cardinality(DOMAIN m_drawPipelines) = 2
    /\ Cardinality(DOMAIN m_drawShaders) = 2
    /\ m_drawPipelineLayouts = {"rasterOrdering", "atomics"}
    /\ drawPipeline.pipeline =
           DrawPipeline(drawPipeline.request.shaderKey,
                        drawPipeline.request.drawPipelineOptions,
                        drawPipeline.request.drawRenderPass)

\* The pools that m_descriptorSetPoolPool holds.
PooledPools ==
    {m_descriptorSetPoolPool[n].resource : n \in DOMAIN m_descriptorSetPoolPool}

\* The pools that the step took from the front of m_descriptorSetPoolPool:
\* makeDescriptorSetPool resets the pool it takes.
PoolsTaken ==
    {p \in DOMAIN descriptorSetPools :
        descriptorSetPools'[p].resets # descriptorSetPools[p].resets}

\* The pools that the step deleted.
PoolsDeleted ==
    {p \in DOMAIN descriptorSetPools' :
        /\ ~descriptorSetPools'[p].alive
        /\ p \in DOMAIN descriptorSetPools => descriptorSetPools[p].alive}

\* C22: m_descriptorSetPoolPool never holds more than
\* kMaxDescriptorSetPoolsInPool pools. Once a flush has dropped its
\* references, a pool is either in the list, once, or deleted; a flush
\* deletes a pool only when the list was full: the list it leaves is full but
\* for the pools that the flush itself took from its front.
DescriptorSetPoolPoolBounded ==
    /\ [](/\ Len(m_descriptorSetPoolPool) <= kMaxDescriptorSetPoolsInPool
          /\ Cardinality(PooledPools) = Len(m_descriptorSetPoolPool)
          /\ \A p \in DOMAIN descriptorSetPools :
                 descriptorSetPools[p].alive <=> p \in PooledPools)
    /\ [][PoolsDeleted # {} =>
              Len(m_descriptorSetPoolPool') + Cardinality(PoolsTaken)
                  >= kMaxDescriptorSetPoolsInPool]_vars

\* The list is full and a flush has deleted the pool it released.
PoolDeletedOnFullList ==
    /\ call = "flush"
    /\ Len(m_descriptorSetPoolPool) = kMaxDescriptorSetPoolsInPool
    /\ \E p \in DOMAIN descriptorSetPools : ~descriptorSetPools[p].alive

\* The makeDescriptorSetPool call took its pool from m_descriptorSetPoolPool.
TakenFromPoolPool(made) == made.pool \in DOMAIN made.pools

\* C23: every pool that makeDescriptorSetPool returns has reference count 1
\* and no live descriptor set. A pool that it takes from
\* m_descriptorSetPoolPool was at the front of the list, with an expiration
\* frame index that is not after the current frame, and has been reset once
\* since it was released; any other pool that it returns is new.
MadeDescriptorSetPoolsAreFresh ==
    \A n \in DOMAIN descriptorSetPoolsMade :
        LET made == descriptorSetPoolsMade[n]
        IN  /\ made.refCnt = 1
            /\ made.descriptorSets = {}
            /\ IF TakenFromPoolPool(made)
               THEN /\ made.poolPool # <<>>
                    /\ made.pool = Head(made.poolPool).resource
                    /\ Head(made.poolPool).expirationFrameIdx <= made.m_currentFrameIdx
                    /\ made.pools[made.pool].refCnt = 0
                    /\ made.resets = made.pools[made.pool].resets + 1
               ELSE /\ made.pool = Len(made.pools) + 1
                    /\ made.resets = 0

\* A flush took a pool from the list while an image texture still held a
\* descriptor set that an earlier frame had allocated from that pool, and
\* the list held a second pool behind it.
ReleasedPoolTakenFromFront ==
    \E n \in DOMAIN descriptorSetPoolsMade :
        LET made == descriptorSetPoolsMade[n]
        IN  /\ TakenFromPoolPool(made)
            /\ Len(made.poolPool) > 1
            /\ \E t \in Textures :
                   /\ imageTextures[t].m_imageTextureDescriptorSet.pool = made.pool
                   /\ imageTextures[t].m_imageTextureDescriptorSet.gen < made.resets

\* The auxiliary images of the render target: the field of renderTarget, the
\* image and its view.
AuxImages ==
    {<<"coverage", "coverageTexture", "coverageTextureView">>,
     <<"clip", "clipTexture", "clipTextureView">>,
     <<"scratchColor", "scratchColorTexture", "scratchColorTextureView">>,
     <<"coverageAtomic", "coverageAtomicTexture", "coverageAtomicTextureView">>}

\* The interlock modes that make synchronize create the image.
ModesOf(field) ==
    CASE field = "clip" -> {"rasterOrdering", "atomics"}
      [] field = "coverageAtomic" -> {"atomics"}
      [] OTHER -> {"rasterOrdering"}

\* The undefined -> general transitions of the image among calls cs.
FirstUseTransitions(image, cs) ==
    {n \in DOMAIN cs : cs[n] = ImageBarrier(image, "UNDEFINED", "GENERAL", 0, 1)}

\* The calls among cs that name the image or its view, but for that transition.
AuxImageUses(image, view, cs) ==
    {n \in DOMAIN cs : cs[n].obj \in {image, view}} \ FirstUseTransitions(image, cs)

\* C24: a flush creates an auxiliary image exactly when its interlock mode
\* needs the image and the render target does not have it, and records one
\* undefined -> general transition of the image then and none otherwise; an
\* image that exists is never made again; every image and image view that a
\* flush names exists when the flush names it, after its transition if the
\* same flush created it; nothing but a flush changes the render target.
AuxImagesCreatedOnceAndPresent ==
    [][IF IsFlushStep /\ desc'.interlockMode # "depthStencil"
       THEN \A aux \in AuxImages :
                LET field == aux[1]
                    created == renderTarget'[field] /\ ~renderTarget[field]
                    transitions == FirstUseTransitions(aux[2], cmds')
                IN  /\ renderTarget[field] => renderTarget'[field]
                    /\ created <=> (/\ desc'.interlockMode \in ModesOf(field)
                                    /\ ~renderTarget[field])
                    /\ Cardinality(transitions) = (IF created THEN 1 ELSE 0)
                    /\ \A n \in AuxImageUses(aux[2], aux[3], cmds') :
                           /\ renderTarget'[field]
                           /\ cmds'[n].op \in {"FramebufferAttachment",
                                               "UpdateInputAttachment"} =>
                                  cmds'[n].k = 1
                           /\ \A m \in transitions : m < n
       ELSE renderTarget' = renderTarget]_vars

\* A rasterOrdering flush after an atomics flush and an earlier rasterOrdering
\* flush: the target has all four images, the flush made none of them, and
\* it used the coverage, clip and scratch-color views.
ModesAlternatedOnOneTarget ==
    /\ Flushed("rasterOrdering")
    /\ \A aux \in AuxImages :
           /\ renderTarget[aux[1]]
           /\ FirstUseTransitions(aux[2], cmds) = {}
    /\ \A view \in {"coverageTextureView", "clipTextureView", "scratchColorTextureView"} :
           /\ CmdIdx("FramebufferAttachment", view) # {}
           /\ CmdIdx("UpdateInputAttachment", view) # {}

\* The image barriers of the last flush on the image, by their index in cmds.
BarriersOn(image) ==
    {n \in DOMAIN cmds : cmds[n].op = "ImageBarrier" /\ cmds[n].obj = image}

\* A render pass is open when call n of the last flush is recorded.
InRenderPass(n) ==
    \E b \in 1 .. n - 1 :
        /\ cmds[b].op = "BeginRenderPass"
        /\ \A e \in b + 1 .. n - 1 : cmds[e].op # "EndRenderPass"

\* C25: an atomics flush records, before the main render pass begins and
\* outside every render pass, the three calls general -> transfer-dst
\* barrier, clear to desc.coverageClearValue, transfer-dst -> general barrier
\* on the atomic coverage image, one after the other; it records no other
\* barrier on the image but the transition of its creation, before these, so
\* the image is in the general layout when the pass begins and until it
\* ends. A rasterOrdering flush records no clear and no call on the image.
AtomicCoverageClearedOutsidePass ==
    /\ Flushed("atomics") =>
           LET image == "coverageAtomicTexture"
               clears == CmdIdx("ClearColorImage", image)
           IN  /\ Cardinality(clears) = 1
               /\ \A n \in clears :
                      /\ n > 1 /\ n < Len(cmds)
                      /\ cmds[n - 1] = ImageBarrier(image, "GENERAL", "TRANSFER_DST", 0, 1)
                      /\ cmds[n].j = desc.coverageClearValue
                      /\ cmds[n + 1] = ImageBarrier(image, "TRANSFER_DST", "GENERAL", 0, 1)
                      /\ \A m \in {n - 1, n, n + 1} : ~InRenderPass(m)
                      /\ \A b \in CmdIdx("BeginRenderPass", "draw") : n + 1 < b
                      /\ BarriersOn(image) \ {n - 1, n + 1}
                             = FirstUseTransitions(image, cmds)
                      /\ \A m \in FirstUseTransitions(image, cmds) : m < n - 1
    /\ Flushed("rasterOrdering") =>
           /\ \A n \in DOMAIN cmds : cmds[n].op # "ClearColorImage"
           /\ \A n \in DOMAIN cmds : cmds[n].obj # "coverageAtomicTexture"

\* An atomics flush of the second frame, on a target that an earlier flush
\* gave its atomic coverage image: the flush clears the image again, to a
\* coverageClearValue of 2, and draws.
AtomicCoverageClearedAgain ==
    /\ Flushed("atomics")
    /\ m_currentFrameIdx = 2
    /\ desc.coverageClearValue = 2
    /\ FirstUseTransitions("coverageAtomicTexture", cmds) = {}
    /\ CmdIdx("ClearColorImage", "coverageAtomicTexture") # {}
    /\ DrawIdx # {}

\* The draws of the last flush in render pass `pass`, by their index in cmds.
DrawsIn(pass) ==
    {n \in DOMAIN cmds :
        /\ cmds[n].op = "Draw"
        /\ \E b \in CmdIdx("BeginRenderPass", pass), e \in CmdIdx("EndRenderPass", pass) :
               b < n /\ n < e}

\* The last flush has one render pass `pass`, with one draw, of `count`
\* instances of `what`.
OnePassDrawing(pass, what, count) ==
    /\ Cardinality(CmdIdx("BeginRenderPass", pass)) = 1
    /\ Cardinality(CmdIdx("EndRenderPass", pass)) = 1
    /\ Cardinality(DrawsIn(pass)) = 1
    /\ \A n \in DrawsIn(pass) : cmds[n] = Draw(what, 0, count)

\* The last flush has no render pass `pass` and no draw of `what`.
NoPassDrawing(pass, what) ==
    /\ CmdIdx("BeginRenderPass", pass) = {}
    /\ CmdIdx("Draw", what) = {}

DrawsOfBatch(n) ==
    {q \in 1 .. Len(cmds) : cmds[q].op = "Draw" /\ cmds[q].i = n}

\* The slot that the most recent map() of render buffer b selected, -1
\* before any map.
FrontSlot(b) == renderBuffers[b].contentsAt

\* C27: for every imageMesh batch of a flush whose buffers have been mapped,
\* the flush records, in this order, a bind of the batch's vertex buffer at binding 0 and of its uv
\* buffer at binding 1, each at the slot of that buffer's most recent map(),
\* a bind of the index buffer at its front slot, and one indexed draw of
\* batch.elementCount indices from batch.baseElement with one instance; the
\* batch has no other draw.
ImageMeshBindsFrontSlotsAndDrawsIndexed ==
    call = "flush" =>
        \A n \in 1 .. Len(desc.drawList) :
            (/\ desc.drawList[n].drawType = "imageMesh"
             /\ FrontSlot(desc.drawList[n].vertexBuffer) >= 0
             /\ FrontSlot(desc.drawList[n].uvBuffer) >= 0
             /\ FrontSlot(desc.drawList[n].indexBuffer) >= 0) =>
                \E q \in 4 .. Len(cmds) :
                    /\ DrawsOfBatch(n) = {q}
                    /\ cmds[q].obj = "imageMesh"
                    /\ cmds[q].j = desc.drawList[n].elementCount
                    /\ cmds[q].first = desc.drawList[n].baseElement
                    /\ cmds[q].k = 1
                    /\ cmds[q - 3] =
                           BindVertexBuffers("renderBuffer", 0,
                               FrontSlot(desc.drawList[n].vertexBuffer),
                               desc.drawList[n].vertexBuffer)
                    /\ cmds[q - 2] =
                           BindVertexBuffers("renderBuffer", 1,
                               FrontSlot(desc.drawList[n].uvBuffer),
                               desc.drawList[n].uvBuffer)
                    /\ cmds[q - 1] =
                           BindIndexBuffer("renderBuffer",
                               FrontSlot(desc.drawList[n].indexBuffer),
                               desc.drawList[n].indexBuffer)

\* An image mesh drawn from a nonzero base element, with its vertex and uv
\* buffers at different slots, neither of them the context's ring slot.
ImageMeshDrawnFromUnequalSlots ==
    /\ call = "flush"
    /\ Len(desc.drawList) = 1
    /\ desc.drawList[1].drawType = "imageMesh"
    /\ desc.drawList[1].baseElement > 0
    /\ desc.drawList[1].vertexBuffer # desc.drawList[1].uvBuffer
    /\ FrontSlot(desc.drawList[1].vertexBuffer) >= 0
    /\ FrontSlot(desc.drawList[1].uvBuffer) >= 0
    /\ FrontSlot(desc.drawList[1].vertexBuffer)
           # FrontSlot(desc.drawList[1].uvBuffer)
    /\ FrontSlot(desc.drawList[1].vertexBuffer) # m_bufferRingIdx
    /\ FrontSlot(desc.drawList[1].uvBuffer) # m_bufferRingIdx
    /\ \E q \in DrawsOfBatch(1) : cmds[q].first = desc.drawList[1].baseElement

\* The assertion failures recorded among the binds of batch n, which end at
\* the batch's draw q.
FailedFrontAsserts(q) ==
    {r \in 1 .. q :
        /\ cmds[r] = AssertionFailure("m_bufferRingIdx >= 0")
        /\ \A m \in r .. q - 1 : cmds[m].op # "Draw"}

\* C28: a map() of a render buffer moves that buffer's ring index to the next
\* slot modulo kBufferRingSize (slot 0 on the first map) and hands out that
\* slot, leaving the context's ring index and every other buffer alone; the
\* unmap() after it flushes the slot that map selected; nothing else moves
\* the index; and a flush that draws an image mesh names, for each of the
\* batch's buffers, the slot of its most recent map, with a failed assertion
\* ahead of the bind exactly when the buffer was never mapped.
MapAdvancesOwnRingIdx ==
    /\ [][\A b \in RenderBuffers :
            LET before == renderBuffers[b]
                after == renderBuffers'[b]
            IN  /\ (call' = "map" /\ after # before) =>
                       /\ after.m_bufferRingIdx =
                              (before.m_bufferRingIdx + 1) % kBufferRingSize
                       /\ before.m_bufferRingIdx = -1 => after.m_bufferRingIdx = 0
                       /\ after.contentsAt = after.m_bufferRingIdx
                       /\ m_bufferRingIdx' = m_bufferRingIdx
                       /\ \A other \in RenderBuffers \ {b} :
                              renderBuffers'[other] = renderBuffers[other]
                /\ (call' = "unmap" /\ after # before) =>
                       /\ after.flushMappedContentsAt = before.contentsAt
                       /\ after.m_bufferRingIdx = before.m_bufferRingIdx
                /\ after.m_bufferRingIdx # before.m_bufferRingIdx =>
                       call' = "map"]_vars
    /\ [](call = "flush" =>
            \A n \in 1 .. Len(desc.drawList) :
                desc.drawList[n].drawType = "imageMesh" =>
                    \A q \in DrawsOfBatch(n) :
                        /\ \A r \in 1 .. q - 1 :
                               (/\ cmds[r].obj = "renderBuffer"
                                /\ \A m \in r .. q - 1 : cmds[m].op # "Draw") =>
                                   cmds[r].j = FrontSlot(cmds[r].k)
                        /\ Cardinality(FailedFrontAsserts(q)) =
                               Cardinality(
                                   {w \in {"vertexBuffer", "uvBuffer", "indexBuffer"} :
                                       FrontSlot(desc.drawList[n][w]) < 0}))

\* A render buffer that an earlier flush read at the last slot of its ring
\* has been mapped again, to slot 0, and unmapped, while the other buffer has
\* never been mapped and the context is at another slot, and a flush has then
\* drawn from both.
BufferWrappedBesideUnmappedBuffer ==
    /\ call = "flush"
    /\ \E b, other \in RenderBuffers :
           /\ \E r \in meshReads : r[2] = b /\ r[3] = kBufferRingSize - 1
           /\ renderBuffers[b].m_bufferRingIdx = 0
           /\ renderBuffers[b].flushMappedContentsAt = 0
           /\ m_bufferRingIdx # 0
           /\ renderBuffers[other].m_bufferRingIdx = -1
    /\ \E q \in DrawsOfBatch(1) : FailedFrontAsserts(q) # {}

(***************************************************************************)
(* SpecCounters: a draw counts its resources, the context takes the counts *)
(* as a vector and builds a ResourceCounters from the vector again.        *)
(***************************************************************************)
\* The counts a member takes: 258 fills two bytes.
CounterValues == {0, 1, 258}

\* The back end's state, which the counters do not touch.
backEndVars ==
    <<desc, cmds, descriptorSetPoolsMade, descriptorSetsAllocated, flushesThisFrame, engineVars,
      m_drawPipelines, drawPipeline, m_drawShaders, m_renderPasses,
      constructed>>

\* A draw's constructor settles one of its counts.
CountResources(member, value) ==
    /\ m_resourceCounts' = [m_resourceCounts EXCEPT ![member] = value]
    /\ m_resourceCounts' # m_resourceCounts
    /\ vec' = toVec(ResourceCounters)
    /\ resourceCounters' = ResourceCounters
    /\ call' = "resourceCounts"
    /\ UNCHANGED <<backEndVars, plsRenderContext,
                   subdivision, gl, m_resourcePurgatory, deletedResources>>

CallToVec ==
    /\ call # "toVec"
    /\ vec' = toVec(m_resourceCounts)
    /\ resourceCounters' = ResourceCounters
    /\ call' = "toVec"
    /\ UNCHANGED <<m_resourceCounts, backEndVars, plsRenderContext,
                   subdivision, gl, m_resourcePurgatory, deletedResources>>

ConstructFromVec ==
    /\ call = "toVec"
    /\ resourceCounters' = ResourceCountersOf(vec)
    /\ call' = "ResourceCounters"
    /\ UNCHANGED <<m_resourceCounts, vec, backEndVars, plsRenderContext,
                   subdivision, gl, m_resourcePurgatory, deletedResources>>

NextCounters ==
    \/ \E member \in DOMAIN ResourceCounters, value \in CounterValues :
          CountResources(member, value)
    \/ CallToVec
    \/ ConstructFromVec

SpecCounters == Init /\ [][NextCounters]_vars

\* C29: the vector that toVec() returns holds the i-th declared counter in
\* lane i, and the ResourceCounters constructed from that vector has the
\* same eight counter values as the object toVec() was called on.
ResourceCountersRoundTrip ==
    /\ call \in {"toVec", "ResourceCounters"} =>
           /\ DOMAIN vec = 0 .. 7
           /\ vec[0] = m_resourceCounts.midpointFanTessVertexCount
           /\ vec[1] = m_resourceCounts.outerCubicTessVertexCount
           /\ vec[2] = m_resourceCounts.pathCount
           /\ vec[3] = m_resourceCounts.contourCount
           /\ vec[4] = m_resourceCounts.tessellatedSegmentCount
           /\ vec[5] = m_resourceCounts.maxTriangleVertexCount
           /\ vec[6] = m_resourceCounts.imageDrawCount
           /\ vec[7] = m_resourceCounts.complexGradientSpanCount
    /\ call = "ResourceCounters" =>
           /\ DOMAIN resourceCounters = DOMAIN m_resourceCounts
           /\ \A member \in DOMAIN m_resourceCounts :
                  resourceCounters[member] = m_resourceCounts[member]

\* Counters that differ from member to member, one of them wider than a
\* byte, have been through the vector and back.
UnequalCountersDecoded ==
    /\ call = "ResourceCounters"
    /\ m_resourceCounts.midpointFanTessVertexCount = 1
    /\ m_resourceCounts.pathCount = 258
    /\ m_resourceCounts.complexGradientSpanCount = 0
    /\ m_resourceCounts.imageDrawCount = 258
    /\ resourceCounters.pathCount = 258

(***************************************************************************)
(* SpecSubdivisions: a build calls FindSubdivisionCount on curves of every  *)
(* estimate.                                                               *)
(***************************************************************************)
\* The largest kMaxParametricSegments and kOuterCurvePatchSegmentSpan of a
\* build.
MaxParametricSegments == 1100

MaxPatchSegmentSpan == 18

\* A patch has a segment besides its join, and a curve has a segment.
PlsBuilds ==
    [kMaxParametricSegments : 1 .. MaxParametricSegments,
     kOuterCurvePatchSegmentSpan : 2 .. MaxPatchSegmentSpan]

\* Estimates around one patch and around the maximum, and the least one
\* whose quotient has no size_t.
CubicsOf(build) ==
    {0, 1, kPatchSegmentCountExcludingJoin(build) + 1,
     build.kMaxParametricSegments, build.kMaxParametricSegments + 1,
     SizeTValues * kPatchSegmentCountExcludingJoin(build)}

\* What a build makes of a float without a size_t: zero, the high bit or
\* the largest size_t.
UndefinedSizeTs == {0, SizeTValues \div 2, SizeTValues - 1}

CallFindSubdivisionCount(build, cubic, undefined) ==
    /\ subdivision' =
           [kMaxParametricSegments |-> build.kMaxParametricSegments,
            kOuterCurvePatchSegmentSpan |-> build.kOuterCurvePatchSegmentSpan,
            kPatchSegmentCountExcludingJoin |->
                kPatchSegmentCountExcludingJoin(build),
            kMaxCurveSubdivisions |-> kMaxCurveSubdivisions(build),
            cubic |-> cubic,
            numSubdivisions |-> FindSubdivisionCount(build, cubic, undefined)]
    /\ UNCHANGED <<implVars, plsRenderContext, counterVars, gl, m_resourcePurgatory, deletedResources>>

\* The constants are the build's: the first call fixes them for the run.
BuildsNow ==
    IF subdivision = NoSubdivision
    THEN PlsBuilds
    ELSE {[kMaxParametricSegments |-> subdivision.kMaxParametricSegments,
           kOuterCurvePatchSegmentSpan |->
               subdivision.kOuterCurvePatchSegmentSpan]}

NextSubdivisions ==
    \E build \in BuildsNow : \E cubic \in CubicsOf(build) :
        \E undefined \in UndefinedSizeTs :
            CallFindSubdivisionCount(build, cubic, undefined)

SpecSubdivisions == Init /\ [][NextSubdivisions]_vars

\* C30: in every build kPatchSegmentCountExcludingJoin is
\* kOuterCurvePatchSegmentSpan - 1, and kMaxCurveSubdivisions is the
\* smallest number whose product with kPatchSegmentCountExcludingJoin is at
\* least kMaxParametricSegments.
MaxCurveSubdivisionsCoverParametricSegments ==
    subdivision # NoSubdivision =>
        /\ subdivision.kPatchSegmentCountExcludingJoin =
               subdivision.kOuterCurvePatchSegmentSpan - 1
        /\ subdivision.kMaxCurveSubdivisions
               * subdivision.kPatchSegmentCountExcludingJoin
               >= subdivision.kMaxParametricSegments
        /\ (subdivision.kMaxCurveSubdivisions - 1)
               * subdivision.kPatchSegmentCountExcludingJoin
               < subdivision.kMaxParametricSegments

\* A build whose kMaxParametricSegments is no multiple of its patch's
\* segments, so that the quotient is rounded up, and a curve clamped to the
\* maximum.
QuotientRoundedUp ==
    /\ subdivision # NoSubdivision
    /\ subdivision.kPatchSegmentCountExcludingJoin > 1
    /\ subdivision.kMaxParametricSegments
           % subdivision.kPatchSegmentCountExcludingJoin # 0
    /\ subdivision.kMaxParametricSegments
           > subdivision.kPatchSegmentCountExcludingJoin
    /\ subdivision.cubic > subdivision.kMaxParametricSegments
    /\ subdivision.numSubdivisions = subdivision.kMaxCurveSubdivisions

\* clamp(ceil(w / kPatchSegmentCountExcludingJoin), 1, kMaxCurveSubdivisions)
\* for the call that `sub` records.
ClampedCeiling(sub) ==
    clamp((sub.cubic + sub.kPatchSegmentCountExcludingJoin - 1)
              \div sub.kPatchSegmentCountExcludingJoin,
          1, sub.kMaxCurveSubdivisions)

\* C31: for every estimate w >= 0 FindSubdivisionCount returns
\* clamp(ceil(w / kPatchSegmentCountExcludingJoin), 1,
\* kMaxCurveSubdivisions): the result lies in [1, kMaxCurveSubdivisions],
\* is 1 for w = 0, and a call on an estimate that is no smaller than the
\* call before it returns no smaller a count.
SubdivisionCountClampedAndMonotone ==
    /\ [](subdivision # NoSubdivision =>
            /\ subdivision.numSubdivisions = ClampedCeiling(subdivision)
            /\ subdivision.numSubdivisions >= 1
            /\ subdivision.numSubdivisions <= subdivision.kMaxCurveSubdivisions
            /\ subdivision.cubic = 0 => subdivision.numSubdivisions = 1)
    /\ [][(subdivision # NoSubdivision /\ subdivision'.cubic >= subdivision.cubic)
             => subdivision'.numSubdivisions >= subdivision.numSubdivisions]_vars

\* The same over the calls whose quotient has a size_t.
SubdivisionCountOfRepresentableQuotients ==
    /\ [](/\ subdivision # NoSubdivision
           /\ subdivision.cubic
                  < SizeTValues * subdivision.kPatchSegmentCountExcludingJoin
           => /\ subdivision.numSubdivisions = ClampedCeiling(subdivision)
              /\ subdivision.cubic = 0 => subdivision.numSubdivisions = 1)
    /\ [][(/\ subdivision # NoSubdivision
            /\ subdivision'.cubic >= subdivision.cubic
            /\ subdivision'.cubic
                   < SizeTValues * subdivision'.kPatchSegmentCountExcludingJoin)
             => subdivision'.numSubdivisions >= subdivision.numSubdivisions]_vars

(***************************************************************************)
(* SpecTextures: the client has bitmaps of several sizes decoded into      *)
(* texture 1 and draws with it.                                            *)
(***************************************************************************)
\* Frames of SpecTextures.
MaxTextureFrames == 3

\* Widths and heights of the bitmaps.
BitmapWidths == {1, 4, 5}

BitmapHeights == {1, 3, 8}

NextTextures ==
    \/ /\ m_currentFrameIdx < MaxTextureFrames
       /\ ClientPrepareToMapBuffers
    \/ ClientFlush(FlushDescriptor("rasterOrdering", "clear", <<0, 0, 0>>,
                                   FALSE, <<TexturedBatch(1)>>, TRUE))
    \/ GpuSignalFence
    \/ \E width \in BitmapWidths, height \in BitmapHeights :
          /\ imageTextures[1].width # width \/ imageTextures[1].height # height
          /\ decodeImageTexture(1, width, height)

SpecTextures == Init /\ [][NextTextures]_vars

\* The layout of each mip level of `image` after the first n of the calls
\* cs, the image being new before them; a level that a barrier named with
\* an old layout it was not in is "MISMATCH" from then on.
RECURSIVE LevelLayouts(_, _, _, _)
LevelLayouts(cs, n, image, mipLevels) ==
    IF n = 0
    THEN [level \in 0 .. mipLevels - 1 |-> "UNDEFINED"]
    ELSE LET before == LevelLayouts(cs, n - 1, image, mipLevels)
         IN  IF cs[n].op = "ImageBarrier" /\ cs[n].obj = image
             THEN [level \in 0 .. mipLevels - 1 |->
                      IF level \in cs[n].i .. cs[n].i + cs[n].j - 1
                      THEN IF before[level] = cs[n].a
                           THEN cs[n].b
                           ELSE "MISMATCH"
                      ELSE before[level]]
             ELSE before

\* The size of mip level `level` of an image of `size` texels.
RECURSIVE MipSize(_, _)
MipSize(size, level) ==
    IF level = 0
    THEN size
    ELSE LET above == MipSize(size, level - 1)
         IN  <<IF above[1] \div 2 >= 1 THEN above[1] \div 2 ELSE 1,
               IF above[2] \div 2 >= 1 THEN above[2] \div 2 ELSE 1>>

\* The blits of image texture t among the calls cs.
BlitsOf(t, cs) ==
    {n \in DOMAIN cs : cs[n].op = "BlitImage" /\ cs[n].obj = TextureName(t)}

\* C32: when a flush has synchronized an image texture, every mip level of
\* the image is in shader-read-only layout, no barrier on it named an old
\* layout that the level was not in, and every level i >= 1 was blitted once,
\* from level i - 1 while that was a transfer source and level i a transfer
\* destination, at the size max(size(i - 1) >> 1, 1) per axis.
SynchronizedTextureReadableAtEveryLevel ==
    call = "flush" =>
        \A t \in {0} \cup Textures :
            Uploads(t, cmds) # {} =>
                LET image == TextureName(t)
                    mipLevels == imageTextures[t].mipLevels
                    size == <<imageTextures[t].width, imageTextures[t].height>>
                IN  /\ mipLevels >= 1
                    /\ \A level \in 0 .. mipLevels - 1 :
                           LevelLayouts(cmds, Len(cmds), image, mipLevels)[level]
                               = "SHADER_READ_ONLY"
                    /\ \A level \in 1 .. mipLevels - 1 :
                           \E n \in BlitsOf(t, cmds) :
                               /\ cmds[n].j = level
                               /\ \A m \in BlitsOf(t, cmds) :
                                      cmds[m].j = level => m = n
                    /\ \A n \in BlitsOf(t, cmds) :
                           /\ cmds[n].j \in 1 .. mipLevels - 1
                           /\ cmds[n].i = cmds[n].j - 1
                           /\ cmds[n].srcSize = MipSize(size, cmds[n].i)
                           /\ cmds[n].dstSize = MipSize(size, cmds[n].j)
                           /\ LevelLayouts(cmds, n, image, mipLevels)[cmds[n].i]
                                  = "TRANSFER_SRC"
                           /\ LevelLayouts(cmds, n, image, mipLevels)[cmds[n].j]
                                  = "TRANSFER_DST"

\* A flush has uploaded a texture of four mip levels whose height reaches
\* one texel two levels before its width does.
FourLevelTextureSynchronized ==
    /\ call = "flush"
    /\ Uploads(1, cmds) # {}
    /\ imageTextures[1].mipLevels = 4
    /\ imageTextures[1].width = 5
    /\ imageTextures[1].height = 8
    /\ \E n \in BlitsOf(1, cmds) :
           cmds[n].srcSize = <<1, 2>> /\ cmds[n].dstSize = <<1, 1>>


(***************************************************************************)
(* The layouts of the gradient and tessellation textures through a flush.  *)
(***************************************************************************)
\* The layout of the one-level image after the first n calls of the last
\* flush, whatever it held before the flush.
LayoutAfter(image, n) == LevelLayouts(cmds, n, image, 1)[0]

\* The old and new layouts of the barriers of the last flush on the image,
\* in recording order.
TransitionsOn(image) ==
    LET barriers == SelectSeq(cmds, LAMBDA c : c.op = "ImageBarrier" /\ c.obj = image)
    IN  [n \in DOMAIN barriers |-> <<barriers[n].a, barriers[n].b>>]

\* C33: in a flush that is not depthStencil, whatever the span counts, the
\* gradient texture goes undefined -> color-attachment -> transfer-dst ->
\* shader-read and the tessellation texture undefined -> color-attachment ->
\* shader-read, each transition starting from the layout the one before it
\* left; the color-ramp and tessellation passes begin and end on a
\* color-attachment image, the copy of the simple ramps writes a
\* transfer-dst image, and both textures are shader-read-only when the main
\* render pass begins, with no barrier on them after that.
GradAndTessTexturesReadableInMainPass ==
    (call = "flush" /\ desc.interlockMode # "depthStencil") =>
        /\ TransitionsOn("gradientTexture")
               = <<<<"UNDEFINED", "COLOR_ATTACHMENT">>,
                   <<"COLOR_ATTACHMENT", "TRANSFER_DST">>,
                   <<"TRANSFER_DST", "SHADER_READ_ONLY">>>>
        /\ TransitionsOn("tessVertexTexture")
               = <<<<"UNDEFINED", "COLOR_ATTACHMENT">>,
                   <<"COLOR_ATTACHMENT", "SHADER_READ_ONLY">>>>
        /\ \A image \in {"gradientTexture", "tessVertexTexture"} :
               /\ \A n \in BarriersOn(image) :
                      cmds[n].a \in {"UNDEFINED", LayoutAfter(image, n - 1)}
               /\ CmdIdx("BeginRenderPass", "draw") # {}
               /\ \A b \in CmdIdx("BeginRenderPass", "draw") :
                      /\ LayoutAfter(image, b) = "SHADER_READ_ONLY"
                      /\ \A n \in BarriersOn(image) : n < b
        /\ \A n \in CmdIdx("BeginRenderPass", "colorRamp")
                       \cup CmdIdx("EndRenderPass", "colorRamp") :
               LayoutAfter("gradientTexture", n) = "COLOR_ATTACHMENT"
        /\ \A n \in CmdIdx("BeginRenderPass", "tessellate")
                       \cup CmdIdx("EndRenderPass", "tessellate") :
               LayoutAfter("tessVertexTexture", n) = "COLOR_ATTACHMENT"
        /\ \A n \in DOMAIN cmds :
               (cmds[n].op = "CopyBufferToImage" /\ cmds[n].obj = "gradientTexture")
                   => LayoutAfter("gradientTexture", n) = "TRANSFER_DST"

\* An atomics flush with no complex span, no simple ramp and no tessellation
\* span that begins its main pass and draws in it.
FlushOfZeroSpansDraws ==
    /\ Flushed("atomics")
    /\ desc.complexGradSpanCount = 0
    /\ desc.simpleGradTexelsHeight = 0
    /\ desc.tessVertexSpanCount = 0
    /\ BarriersOn("gradientTexture") # {}
    /\ BarriersOn("tessVertexTexture") # {}
    /\ CmdIdx("BeginRenderPass", "draw") # {}
    /\ DrawIdx # {}

(***************************************************************************)
(* SpecGL: flushes of the GL back end through PLSImplRWTexture. The        *)
(* context activates pixel local storage, draws the batches, under atomics *)
(* sets up and draws the resolve, and deactivates.                         *)
(***************************************************************************)
\* renderTargetUpdateBounds of the flushes, by number.
UpdateBounds == {1, 2}

GLFlushDescriptors ==
    {GLFlushDescriptor(m, f, l, t, b, c) :
        m \in {"rasterOrdering", "atomics"},
        f \in SUBSET {"ENABLE_ADVANCED_BLEND", "ENABLE_CLIPPING"},
        l \in LoadActions, t \in RenderTargetGLs, b \in UpdateBounds,
        c \in CoverageClearValues}

glOtherVars ==
    <<implVars, plsRenderContext, counterVars, subdivision, m_resourcePurgatory,
      deletedResources>>

\* A draw call of the context, on the draw framebuffer it finds bound; the
\* call's mask tells whether color writes were enabled.
GLDraw(g, what) ==
    GLCall(g, GLCmd("Draw", "", g.drawFramebuffer, "", what, 0,
                    IF g.colorWriteMask THEN {"color"} ELSE {}))

CallActivatePixelLocalStorage(d) ==
    /\ gl.at = "idle"
    /\ gl' = [activatePixelLocalStorage(
                  [gl EXCEPT !.calls = <<>>, !.desc = d, !.shaderMiscFlags = "none"], d)
                 EXCEPT !.at = "activated"]
    /\ UNCHANGED glOtherVars

\* The context draws the flush's batches.
DrawBatches ==
    /\ gl.at = "activated"
    /\ gl' = [GLDraw(gl, "batches") EXCEPT !.at = "drawn"]
    /\ UNCHANGED glOtherVars

\* Under atomics the context ends the draw list with the resolve: it asks
\* for the resolve shader's flags, calls setupAtomicResolve and draws.
DrawAtomicResolve ==
    /\ gl.at = "drawn"
    /\ gl.desc.interlockMode = "atomics"
    /\ gl' = [GLDraw(setupAtomicResolve(gl, gl.desc),
                     atomicResolveShaderMiscFlags(gl.desc))
                 EXCEPT !.at = "resolved",
                        !.shaderMiscFlags = atomicResolveShaderMiscFlags(gl.desc)]
    /\ UNCHANGED glOtherVars

CallDeactivatePixelLocalStorage ==
    /\ \/ gl.at = "drawn" /\ gl.desc.interlockMode = "rasterOrdering"
       \/ gl.at = "resolved"
    /\ gl' = [deactivatePixelLocalStorage(gl, gl.desc) EXCEPT !.at = "idle"]
    /\ UNCHANGED glOtherVars

NextGL ==
    \/ \E d \in GLFlushDescriptors : CallActivatePixelLocalStorage(d)
    \/ DrawBatches
    \/ DrawAtomicResolve
    \/ CallDeactivatePixelLocalStorage

SpecGL == Init /\ [][NextGL]_vars

\* The calls `op` of the GL flush, by their index in gl.calls.
GLCallIdx(op) == {n \in DOMAIN gl.calls : gl.calls[n].op = op}

\* The clears of a color target: of the color plane of a framebuffer, or of
\* a whole framebuffer.
ColorClears ==
    {n \in GLCallIdx("ClearBufferfv") : gl.calls[n].plane = "color"}
        \cup GLCallIdx("Clear")

\* The clears of the unsigned-integer plane `plane`.
PlaneClears(plane) ==
    {n \in GLCallIdx("ClearBufferuiv") : gl.calls[n].plane = plane}

\* C34: for every interlock mode, advanced-blend flag, clipping flag and
\* render target kind, activatePixelLocalStorage clears the color target
\* once when colorLoadAction = clear, and it is the color plane of the
\* internal framebuffer if color is a storage texture (rasterOrdering, or
\* advanced blend) and otherwise the destination framebuffer, with color
\* writes enabled; it clears no color target when the load action is
\* preserveRenderTarget or dontCare; it clears the coverage plane once, to
\* coverageClearValue, and the clip plane once, to zero, exactly when
\* clipping is enabled.
ActivateClearsColorTargetOnce ==
    gl.at = "activated" =>
        LET d == gl.desc
            storage ==
                \/ d.interlockMode = "rasterOrdering"
                \/ "ENABLE_ADVANCED_BLEND" \in d.combinedShaderFeatures
        IN  /\ IF d.colorLoadAction = "clear"
               THEN \E n \in ColorClears :
                        /\ ColorClears = {n}
                        /\ gl.calls[n].value = d.clearColor
                        /\ "color" \in gl.calls[n].mask
                        /\ IF storage
                           THEN /\ gl.calls[n].op = "ClearBufferfv"
                                /\ gl.calls[n].fb = "internal"
                           ELSE /\ gl.calls[n].op = "Clear"
                                /\ gl.calls[n].fb = "destination"
               ELSE ColorClears = {}
            /\ \E n \in PlaneClears("coverage") :
                   /\ PlaneClears("coverage") = {n}
                   /\ gl.calls[n].value = d.coverageClearValue
                   /\ gl.calls[n].fb = "internal"
                   /\ "coverage" \in gl.calls[n].mask
            /\ IF "ENABLE_CLIPPING" \in d.combinedShaderFeatures
               THEN \E n \in PlaneClears("clip") :
                        /\ PlaneClears("clip") = {n}
                        /\ gl.calls[n].value = 0
                        /\ gl.calls[n].fb = "internal"
                        /\ "clip" \in gl.calls[n].mask
               ELSE PlaneClears("clip") = {}

\* activatePixelLocalStorage has run for an atomics flush with advanced
\* blend and clipping that loads by clearing: the color plane is a storage
\* texture and the destination framebuffer is bound.
AtomicsAdvancedBlendFlushCleared ==
    /\ gl.at = "activated"
    /\ gl.desc.interlockMode = "atomics"
    /\ gl.desc.combinedShaderFeatures = {"ENABLE_ADVANCED_BLEND", "ENABLE_CLIPPING"}
    /\ gl.desc.colorLoadAction = "clear"
    /\ gl.desc.coverageClearValue = 2
    /\ ColorClears # {}
    /\ gl.drawFramebuffer = "destination"

\* The flush rendered into an offscreen target texture on behalf of an
\* external framebuffer.
RenderedOffscreen == GLCallIdx("allocateOffscreenTargetTexture") # {}

\* The blits of the flush from the internal framebuffer's color plane to the
\* destination framebuffer.
BlitsToDestination ==
    {n \in GLCallIdx("BlitFramebuffer") :
        /\ gl.calls[n].from = "internal"
        /\ gl.calls[n].fb = "destination"}

\* The resolve draws of the flush whose shader both resolves and transfers.
CoalescedResolves ==
    {n \in GLCallIdx("Draw") : gl.calls[n].plane = "coalescedResolveAndTransfer"}

\* C35: when a flush has rendered offscreen for an external framebuffer, the
\* result has reached the destination framebuffer by one route: the blit of
\* deactivatePixelLocalStorage, of renderTargetUpdateBounds, under
\* rasterOrdering, or the coalesced resolve-and-transfer under atomics, drawn
\* on the destination framebuffer with color writes enabled; a flush that
\* has not rendered offscreen takes neither route. Under atomics
\* atomicResolveShaderMiscFlags returns coalescedResolveAndTransfer exactly
\* when the flush has rendered offscreen, and deactivate does not blit;
\* deactivate does not blit for a render target that is not a framebuffer.
OffscreenResultReachesDestinationOnce ==
    (gl.at = "idle" /\ gl.desc # NoGLDesc) =>
        LET d == gl.desc
            routes == Cardinality(BlitsToDestination) + Cardinality(CoalescedResolves)
        IN  /\ routes = IF RenderedOffscreen THEN 1 ELSE 0
            /\ d.interlockMode = "rasterOrdering" => CoalescedResolves = {}
            /\ d.interlockMode = "atomics" =>
                   /\ BlitsToDestination = {}
                   /\ gl.shaderMiscFlags = "coalescedResolveAndTransfer"
                          <=> RenderedOffscreen
            /\ d.renderTarget # "FramebufferRenderTargetGL" =>
                   BlitsToDestination = {}
            /\ \A n \in BlitsToDestination :
                   /\ gl.calls[n].value = d.renderTargetUpdateBounds
                   /\ n = Len(gl.calls)
            /\ \A n \in CoalescedResolves :
                   /\ gl.calls[n].fb = "destination"
                   /\ "color" \in gl.calls[n].mask

\* An atomics flush with advanced blend on an external framebuffer has
\* ended: it rendered offscreen and resolved with the coalesced shader.
CoalescedResolveFlushEnded ==
    /\ gl.at = "idle"
    /\ gl.desc.interlockMode = "atomics"
    /\ gl.desc.renderTarget = "FramebufferRenderTargetGL"
    /\ RenderedOffscreen
    /\ CoalescedResolves # {}
    /\ GLCallIdx("MemoryBarrierByRegion") # {}

\* The setWriteMasks calls of the flush that set the color write mask to
\* `value` (0 or 1).
ColorWriteMaskCalls(value) ==
    {n \in GLCallIdx("setWriteMasks") : gl.calls[n].value = value}

\* C36: under atomics, when activatePixelLocalStorage returns color writes
\* are disabled exactly if the flush has advanced blend on an
\* external-framebuffer target, and activate has disabled them itself; when
\* setupAtomicResolve has run, color writes are enabled, and it has enabled
\* them itself in exactly those flushes, after activate disabled them.
ColorWritesOffUntilCoalescedResolve ==
    LET d == gl.desc
        coalesced ==
            /\ "ENABLE_ADVANCED_BLEND" \in d.combinedShaderFeatures
            /\ d.renderTarget = "FramebufferRenderTargetGL"
    IN  /\ (gl.at \in {"activated", "drawn"} /\ d.interlockMode = "atomics") =>
               /\ gl.colorWriteMask <=> ~coalesced
               /\ Cardinality(ColorWriteMaskCalls(0)) = IF coalesced THEN 1 ELSE 0
               /\ ColorWriteMaskCalls(1) = {}
        /\ gl.at = "resolved" =>
               /\ gl.colorWriteMask
               /\ Cardinality(ColorWriteMaskCalls(0)) = IF coalesced THEN 1 ELSE 0
               /\ Cardinality(ColorWriteMaskCalls(1)) = IF coalesced THEN 1 ELSE 0
               /\ \A off \in ColorWriteMaskCalls(0), on \in ColorWriteMaskCalls(1) :
                      off < on

\* setupAtomicResolve has run in a flush whose activate disabled color
\* writes, after an earlier flush: color writes are on again.
ColorWritesTurnedBackOn ==
    /\ gl.at = "resolved"
    /\ ColorWriteMaskCalls(0) # {}
    /\ ColorWriteMaskCalls(1) # {}
    /\ gl.colorWriteMask
    /\ gl.blendEquation = "srcOver"

\* The blits of the flush from the destination framebuffer to the color
\* plane of the internal framebuffer.
CopiesIn ==
    {n \in GLCallIdx("BlitFramebuffer") :
        /\ gl.calls[n].from = "destination"
        /\ gl.calls[n].fb = "internal"}

\* C37: a flush on an external framebuffer that does not render directly to
\* it (rasterOrdering, or atomics with advanced blend) renders offscreen, and
\* with colorLoadAction = preserveRenderTarget activatePixelLocalStorage
\* copies renderTargetUpdateBounds of the destination framebuffer into the
\* color plane of the internal framebuffer, once, before every clear and
\* draw; with clear or dontCare, for an atomics flush without advanced
\* blend, and for a target that is not a framebuffer, there is no copy.
PreservedFramebufferCopiedIn ==
    gl.desc # NoGLDesc =>
        LET d == gl.desc
            direct ==
                /\ d.interlockMode = "atomics"
                /\ "ENABLE_ADVANCED_BLEND" \notin d.combinedShaderFeatures
            offscreen == ~direct /\ d.renderTarget = "FramebufferRenderTargetGL"
        IN  /\ RenderedOffscreen <=> offscreen
            /\ IF offscreen /\ d.colorLoadAction = "preserveRenderTarget"
               THEN \E n \in CopiesIn :
                        /\ CopiesIn = {n}
                        /\ gl.calls[n].value = d.renderTargetUpdateBounds
                        /\ gl.calls[n].mask = {"color"}
                        /\ \A m \in ColorClears \cup PlaneClears("coverage")
                                      \cup PlaneClears("clip") \cup GLCallIdx("Draw") :
                               n < m
               ELSE CopiesIn = {}

\* A rasterOrdering flush on an external framebuffer that preserves the
\* render target has copied the second bounds in and drawn.
PreservingFlushDrawn ==
    /\ gl.at = "drawn"
    /\ gl.desc.interlockMode = "rasterOrdering"
    /\ gl.desc.colorLoadAction = "preserveRenderTarget"
    /\ gl.desc.renderTargetUpdateBounds = 2
    /\ CopiesIn # {}
    /\ GLCallIdx("Draw") # {}

(***************************************************************************)
(* The descriptor sets that a flush allocates from one DescriptorSetPool.  *)
(***************************************************************************)
DescriptorTypes == DOMAIN descriptorPoolSizes

\* The sets among the first n allocations of the last flush that came from
\* `pool` after its reset number `gen`.
SetsFrom(pool, gen, n) ==
    {m \in 1 .. n :
        /\ descriptorSetsAllocated[m].pool = pool
        /\ descriptorSetsAllocated[m].gen = gen}

\* The descriptors of `type` that those sets took from the pool.
RECURSIVE DescriptorsFrom(_, _, _, _)
DescriptorsFrom(pool, gen, type, n) ==
    IF n = 0
    THEN 0
    ELSE DescriptorsFrom(pool, gen, type, n - 1)
             + (IF n \in SetsFrom(pool, gen, n)
                THEN descriptorSetsAllocated[n].layout[type]
                ELSE 0)

\* C38: in a flush, the sets allocated from one DescriptorSetPool between
\* two resets of it (the color-ramp set, the tessellation set, the per-flush
\* set, the PLS set and the image-texture sets) are at most
\* kMaxDescriptorSets, and the descriptors of each type that they take are
\* at most the pool's size for the type.
DescriptorSetsWithinPoolLimits ==
    call = "flush" =>
        \A n \in DOMAIN descriptorSetsAllocated :
            LET pool == descriptorSetsAllocated[n].pool
                gen == descriptorSetsAllocated[n].gen
                last == Len(descriptorSetsAllocated)
            IN  /\ Cardinality(SetsFrom(pool, gen, last)) <= kMaxDescriptorSets
                /\ \A type \in DescriptorTypes :
                       DescriptorsFrom(pool, gen, type, last)
                           <= descriptorPoolSizes[type]

\* The same with room for one more set: the descriptors of every type stay
\* within the pool's sizes, and the sets within kMaxDescriptorSets + 1.
DescriptorSetsWithinOneMoreThanLimit ==
    call = "flush" =>
        \A n \in DOMAIN descriptorSetsAllocated :
            LET pool == descriptorSetsAllocated[n].pool
                gen == descriptorSetsAllocated[n].gen
                last == Len(descriptorSetsAllocated)
            IN  /\ Cardinality(SetsFrom(pool, gen, last)) <= kMaxDescriptorSets + 1
                /\ \A type \in DescriptorTypes :
                       DescriptorsFrom(pool, gen, type, last)
                           <= descriptorPoolSizes[type]
                /\ \E made \in DOMAIN descriptorSetPoolsMade :
                       descriptorSetPoolsMade[made].pool = pool

\* A flush has taken kMaxDescriptorSets + 1 sets from its first pool.
FirstPoolHoldsOneSetTooMany ==
    /\ call = "flush"
    /\ descriptorSetsAllocated # <<>>
    /\ LET first == descriptorSetsAllocated[1]
       IN  Cardinality(SetsFrom(first.pool, first.gen, Len(descriptorSetsAllocated)))
               = kMaxDescriptorSets + 1

(***************************************************************************)
(* Batches of no elements in the draw list.                                *)
(***************************************************************************)
\* The batches of the last flush's draw list that have elements.
BatchesWithElements ==
    {n \in DOMAIN desc.drawList : desc.drawList[n].elementCount > 0}

\* The pipeline binds that the last flush recorded for batch n.
PipelineBindsOfBatch(n) ==
    {q \in DOMAIN cmds : cmds[q].op = "BindPipeline" /\ cmds[q].i = n}

\* C39: the main pass of a flush that is not depthStencil records one
\* pipeline bind and one draw for every batch with elementCount > 0 and
\* none for a batch with elementCount = 0, so it draws as many times as
\* there are batches with elements; it binds an image-texture descriptor
\* set once per such batch with an image texture, and updates the set of no
\* texture that only batches of no elements use; and between two draws that
\* follow each other, whatever batches of no elements lie between their
\* batches, it records one memory barrier if the flush is atomics and the
\* first draw's batch has needsBarrier, and none otherwise.
EmptyBatchesSkipped ==
    (call = "flush" /\ desc.interlockMode # "depthStencil") =>
        /\ \A n \in DOMAIN desc.drawList :
               /\ Cardinality(DrawsOfBatch(n))
                      = IF n \in BatchesWithElements THEN 1 ELSE 0
               /\ Cardinality(PipelineBindsOfBatch(n))
                      = IF n \in BatchesWithElements THEN 1 ELSE 0
        /\ Cardinality(DrawIdx) = Cardinality(BatchesWithElements)
        /\ Cardinality({q \in DOMAIN cmds :
                           /\ cmds[q].op = "BindDescriptorSets"
                           /\ cmds[q].obj = "imageTexture"})
               = Cardinality({n \in BatchesWithElements :
                                 desc.drawList[n].imageTexture # 0})
        /\ \A t \in Textures :
               CmdIdx("UpdateDescriptorSet", TextureName(t)) # {} =>
                   \E n \in BatchesWithElements : desc.drawList[n].imageTexture = t
        /\ Cardinality({n \in DOMAIN descriptorSetsAllocated :
                           descriptorSetsAllocated[n].layout = perDrawLayout})
               <= Cardinality({desc.drawList[n].imageTexture :
                                  n \in BatchesWithElements} \ {0})
        /\ \A p, q \in DrawIdx :
               (p < q /\ ~\E m \in DrawIdx : p < m /\ m < q) =>
                   Cardinality({r \in BarrierIdx : p < r /\ r < q})
                       = IF /\ desc.interlockMode = "atomics"
                            /\ desc.drawList[cmds[p].i].needsBarrier
                         THEN 1
                         ELSE 0

\* An atomics flush draws a batch without needsBarrier, skips an image-rect
\* batch of no elements that has needsBarrier and an image texture, and
\* resolves: two draws, no barrier, no descriptor set for the texture.
EmptyImageBatchWithNeedsBarrierSkipped ==
    /\ Flushed("atomics")
    /\ desc.colorLoadAction = "preserveRenderTarget"
    /\ Len(desc.drawList) = 3
    /\ desc.drawList[1].elementCount > 0
    /\ ~desc.drawList[1].needsBarrier
    /\ desc.drawList[2].elementCount = 0
    /\ desc.drawList[2].needsBarrier
    /\ desc.drawList[2].imageTexture = 1
    /\ Cardinality(DrawIdx) = 2
    /\ ResolveIdx # {}

(***************************************************************************)
(* SpecPurgatory: rendering resources are released while frames go by.     *)
(***************************************************************************)
\* The purgatory holds at most MaxPurgatory resources.
MaxPurgatory == 3

\* The released resources, by kind.
RenderingResources == {"buffer", "texture"}

\* PLSRenderContextVulkanImpl::onRenderingResourceReleased: the resource may
\* be in use by the command buffers of the current frame.
onRenderingResourceReleased(resource) ==
    /\ Len(m_resourcePurgatory) < MaxPurgatory
    /\ m_resourcePurgatory' =
           Append(m_resourcePurgatory, ZombieResource(resource, m_currentFrameIdx))
    /\ call' = "onRenderingResourceReleased"
    /\ UNCHANGED <<backEndVars, plsRenderContext, counterVars, subdivision, gl,
                   deletedResources>>

NextPurgatory ==
    \/ ClientPrepareToMapBuffers
    \/ \E resource \in RenderingResources : onRenderingResourceReleased(resource)

SpecPurgatory == Init /\ [][NextPurgatory]_vars

====
